---- MODULE Spec2Model ----
(***************************************************************************)
(* State-machine model of ldap3.core.connection.Connection: the session    *)
(* life cycle (open / start_tls / bind / unbind), the lazy (deferred)      *)
(* execution glue and the LDAP operations.                                 *)
(*                                                                         *)
(* Every public method is one action: its body runs under self.lock.  The  *)
(* entries and usage properties, which hold no lock, are steps of a        *)
(* thread, and the lock itself is followed step by step by CallMethod,     *)
(* AcquireLock and ReleaseLock.  The with statement is the two calls       *)
(* __enter__ and __exit__.  A method body is an operator that              *)
(* threads a "frame" t through the statements of the method:               *)
(*   t.c     the Connection object (and the strategy state it owns)        *)
(*   t.env   what the environment answers during this call                 *)
(*   t.wire  the calls made on the strategy / TLS collaborator, in order   *)
(*   t.exc   the exception that is propagating ("" when none)              *)
(*   t.ret   the value returned                                            *)
(*   t.resp  the local response, t.result the local result of bind         *)
(*   t.rounds  the replies of the NTLM rounds of bind so far               *)
(*   t.faulted, t.tls_failed  the transport, the TLS upgrade failed        *)
(* A statement is skipped while an exception propagates.                   *)
(***************************************************************************)
EXTENDS Integers, Sequences, FiniteSets, TLC

VARIABLES conn,  \* the Connection object
          call,  \* the last public call: what was asked, sent and returned
          pc,    \* "init" before the life-cycle part of __init__ ran, then "ready",
                 \* or "failed" when __init__ raised
          faults, \* the calls so far during which the transport or the TLS upgrade failed
          calls, \* the public calls made so far after the construction
          reader, \* a thread inside the entries property: the response it read,
                  \* until it stores the entries built from it
          lock,   \* self.lock: the thread that owns it and how many times it took it
          threads \* of each thread: the methods it is inside of (innermost last) and
                  \* the method whose "with self.lock" it has reached

vars == <<conn, call, pc, faults, calls, reader, lock, threads>>

-----------------------------------------------------------------------------
(* Bounds of the model *)

MaxMsgId == 2      \* message ids the strategy hands out are 1..MaxMsgId
MaxFailAt == 3     \* the environment can make the n-th send of a call fail, n <= MaxFailAt
MaxCalls == 2      \* public calls made on the Connection after its construction
MaxThreads == 2    \* threads that share the Connection
MaxFaults == 1     \* calls of one run during which the transport or the TLS upgrade fails
MaxResults == 3    \* results of the search whose entries are built
MaxWorkers == 2    \* connections in the pool of a pooled strategy
MaxDepth == 2      \* entries of the context manager that have not been left

(* Program constants *)

NO_ATTRIBUTES == "1.1"
ALL_ATTRIBUTES == "*"
ALL_OPERATIONAL_ATTRIBUTES == "+"
PAGED_RESULTS == "1.2.840.113556.1.4.319"
RESULT_SUCCESS == 0
RESULT_COMPARE_TRUE == 6
MODIFY_ADD == 0
MODIFY_DELETE == 1
MODIFY_REPLACE == 2
MODIFY_INCREMENT == 3

(* a result code that is neither success nor compareTrue (invalidCredentials) *)
RESULT_OTHER == 49

CLIENT_STRATEGIES == {"SYNC", "ASYNC", "LDIF", "RESTARTABLE", "REUSABLE", "MOCK_SYNC", "MOCK_ASYNC"}
SASL_AVAILABLE_MECHANISMS == {"EXTERNAL", "DIGEST-MD5"}

AUTO_BIND_MODES == {"AUTO_BIND_NONE", "AUTO_BIND_NO_TLS", "AUTO_BIND_TLS_BEFORE_BIND", "AUTO_BIND_TLS_AFTER_BIND"}

-----------------------------------------------------------------------------
(* Python values *)

NoExc == ""
NoError == "None"

\* result dictionaries; None is the record of type "None"
NoneResult == [type |-> "None", result |-> -1, description |-> ""]
Result(type, code) ==
    [type |-> type, result |-> code,
     description |-> IF code = RESULT_SUCCESS THEN "success"
                     ELSE IF code = RESULT_COMPARE_TRUE THEN "compareTrue"
                     ELSE "invalidCredentials"]

\* a response is None or a list of entries, each entry given by its attribute names
NoneResponse == [none |-> TRUE, list |-> <<>>]
Response(list) == [none |-> FALSE, list |-> list]
Truthy(response) == ~response.none /\ Len(response.list) > 0

\* return values: None, a bool, or an int (a message id)
RetNone == [kind |-> "None", b |-> FALSE, n |-> 0]
RetBool(b) == [kind |-> "bool", b |-> b, n |-> 0]
RetInt(n) == [kind |-> "int", b |-> FALSE, n |-> n]

\* the cached entries: None, or the entries built from a response
NoneEntries == [none |-> TRUE, of |-> NoneResponse, signatures |-> <<>>]

\* threading.RLock() (line 156): owned by no thread
NoThread == 0
Threads == 1..MaxThreads
RLock == [owner |-> NoThread, count |-> 0]

\* a thread that is inside no method and calls none
Idle == [stack |-> <<>>, waiting |-> "None"]

\* collect_usage=False (lines 148, 191): self._usage is None
NoUsage == -1

\* ConnectionUsage() (line 191): the operations counted so far
ConnectionUsage == 0

\* the strategy has no pool
NoPool == [connections |-> <<>>, terminated_usage |-> 0]

\* a thread inside the usage property, about to add the counters of the next-th
\* connection of the pool
InUsage(next) == [stack |-> <<"usage">>, waiting |-> "None", next |-> next]
InsideUsage(th) == threads[th].stack = <<"usage">>

\* no thread is inside the entries property
NoReader == [reading |-> FALSE, response |-> NoneResponse]

\* controls: None or a list (given by its length)
NoControls == -1

\* the empty _outstanding mapping (message id -> request type)
NoOutstanding == [i \in {} |-> ""]

-----------------------------------------------------------------------------
(* Strategy capability flags (package ldap3.strategy) *)

StrategySync(kind) == kind \in {"SYNC", "LDIF", "RESTARTABLE", "MOCK_SYNC"}
StrategyNoRealDsa(kind) == kind \in {"LDIF", "MOCK_SYNC", "MOCK_ASYNC"}
StrategyPooled(kind) == kind = "REUSABLE"

-----------------------------------------------------------------------------
(* Frames *)

Frame(c, env) ==
    [c |-> c, env |-> env, wire |-> <<>>, exc |-> NoExc, ret |-> RetNone,
     fired |-> 0, nsend |-> 0, own |-> 0, reached |-> FALSE, entry |-> c, faulted |-> FALSE,
     resp |-> [kind |-> "None", id |-> 0, result |-> NoneResult, creds |-> FALSE],
     result |-> NoneResult, rounds |-> <<>>, tls_failed |-> FALSE]

\* self.last_error = msg; raise err(self.last_error)
Raise(t, err, msg) == [t EXCEPT !.c.last_error = msg, !.exc = err]

Failed(t) == t.exc # NoExc

\* one entry of the wire log: a call on the strategy or on the TLS collaborator
Event(type, request) == [type |-> type, req |-> request]
Log(t, type, request) == [t EXCEPT !.wire = Append(@, Event(type, request))]

-----------------------------------------------------------------------------
(* The strategy (package ldap3.strategy): open, close, send, post_send, get_response *)

RECURSIVE refresh_server_info(_)

\* a local variable of a method: the value is computed once and named
With(value, body(_)) == body(value)

\* the lowest message id not outstanding
FreshId(outstanding) ==
    CHOOSE i \in 1..MaxMsgId : i \notin DOMAIN outstanding
                               /\ \A j \in 1..(i - 1) : j \in DOMAIN outstanding

Without(outstanding, id) == [i \in DOMAIN outstanding \ {id} |-> outstanding[i]]

RespType(request) ==
    CASE request = "bindRequest" -> "bindResponse"
      [] request = "searchRequest" -> "searchResDone"
      [] request = "compareRequest" -> "compareResponse"
      [] request = "addRequest" -> "addResponse"
      [] request = "delRequest" -> "delResponse"
      [] request = "modifyRequest" -> "modifyResponse"
      [] request = "modDNRequest" -> "modDNResponse"
      [] request = "extendedReq" -> "extendedResp"
      [] OTHER -> "None"

\* strategy.open(read_server_info): in lazy mode outside deferred resolution only the
\* intent is recorded; otherwise a no-op on an open transport, else the transport is
\* established (this can fail at the transport level)
strategy_open(t, read_server_info) ==
    IF Failed(t) THEN t
    ELSE IF t.c.lazy /\ ~t.c.executing_deferred
    THEN [t EXCEPT !.c.deferred_open = TRUE, !.c.closed = FALSE]
    ELSE IF t.c.socket
    THEN [t EXCEPT !.c.deferred_open = FALSE, !.c.closed = FALSE]
    ELSE IF t.env.fault = "open" /\ ~StrategyNoRealDsa(t.c.strategy_type)
    THEN [Raise(Log(t, "open", ""), "TransportFailure", "socket connection error")
              EXCEPT !.faulted = TRUE]
    ELSE With([Log(t, "open", "") EXCEPT !.c.socket = TRUE, !.c.closed = FALSE,
                                         !.c.authenticated = FALSE,
                                         !.c.deferred_open = FALSE,
                                         !.c.outstanding = NoOutstanding],
              LAMBDA t2 : IF read_server_info THEN refresh_server_info(t2) ELSE t2)

\* strategy.close(): releases the transport; a closed session is neither bound
\* nor TLS-protected and has no outstanding request
strategy_close(t) ==
    IF Failed(t) THEN t
    ELSE [t EXCEPT !.c.closed = TRUE, !.c.socket = FALSE, !.c.bound = FALSE,
                   !.c.authenticated = FALSE,
                   !.c.tls_started = FALSE, !.c.outstanding = NoOutstanding]

\* the environment's choice to fail the n-th send of the call
SendFault(n) == "send" \o ToString(n)

\* strategy.send(message_type, request, controls): hands the message to the transport
\* and registers it as outstanding; fails at the transport level when the environment
\* says so or when a real endpoint is needed and no transport is open
send(t, message_type, request) ==
    IF Failed(t) THEN t
    ELSE IF /\ ~StrategyNoRealDsa(t.c.strategy_type)
            /\ (t.env.fault = SendFault(t.nsend + 1) \/ ~t.c.socket)
    THEN [Raise(Log(t, message_type, request), "TransportFailure", "socket sending error")
              EXCEPT !.nsend = @ + 1, !.faulted = TRUE]
    ELSE [Log(t, message_type, request)
              EXCEPT !.nsend = @ + 1,
                     !.c.outstanding = (FreshId(t.c.outstanding) :> message_type) @@ @,
                     !.resp = [kind |-> "int", id |-> FreshId(t.c.outstanding),
                               result |-> NoneResult, creds |-> FALSE]]

\* strategy.post_send_single_response / post_send_search applied to what send returned.
\* Synchronous and no-real-endpoint strategies resolve the outcome into result/response
\* at once; a synchronous strategy returns the response, the others the message id.
\* The LDIF producer renders write operations as text and has no read operations.
post_send(t, request, code, list) ==
    IF Failed(t) THEN t
    ELSE IF t.c.strategy_type = "LDIF"
    THEN IF request \in {"searchRequest", "compareRequest"}
         THEN Raise([t EXCEPT !.c.outstanding = Without(@, t.resp.id)],
                    "UnsupportedOnStrategy", "operation not allowed in the LDIF producer")
         ELSE [t EXCEPT !.c.outstanding = Without(@, t.resp.id),
                        !.resp = [kind |-> IF request \in {"addRequest", "delRequest",
                                                            "modifyRequest", "modDNRequest"}
                                           THEN "str" ELSE "None",
                                  id |-> t.resp.id, result |-> NoneResult, creds |-> FALSE]]
    ELSE IF StrategySync(t.c.strategy_type)
    THEN [t EXCEPT !.c.result = Result(RespType(request), code),
                   !.c.response = Response(list),
                   !.c.outstanding = Without(@, t.resp.id),
                   !.resp = [kind |-> "list", id |-> t.resp.id,
                             result |-> Result(RespType(request), code), creds |-> FALSE]]
    ELSE IF StrategyNoRealDsa(t.c.strategy_type)
    THEN [t EXCEPT !.c.result = Result(RespType(request), code),
                   !.c.response = Response(list)]
    ELSE t

\* strategy.get_response(message_id): collects the outcome of an outstanding request
\* (None when it is not available) and forgets the request
get_response(t, code, available) ==
    IF Failed(t) THEN t
    ELSE [t EXCEPT !.c.outstanding = IF t.resp.kind = "int" THEN Without(@, t.resp.id) ELSE @,
                   !.resp.result = IF available THEN Result("bindResponse", code) ELSE NoneResult]

-----------------------------------------------------------------------------
(* Connection: start_tls, do_sasl_bind, bind *)

\* start_tls() with the negation of its guard lost: a lazy session upgrades at once
start_tls_defers_in_resolution(c) == c.lazy /\ c.executing_deferred

\* line 727: if self.lazy and not self._executing_deferred
start_tls_defers(c) == c.lazy /\ ~c.executing_deferred

\* bind() deferring on every lazy session, the resolution in progress included
bind_defers_always(c) == c.lazy

\* line 375: if self.lazy and not self._executing_deferred
bind_defers(c) == c.lazy /\ ~c.executing_deferred

\* Tls.start_tls(connection): the TLS collaborator upgrades the transport and says
\* whether it succeeded
tls_start_tls(t) ==
    IF t.env.fault # "tls" THEN [Log(t, "tls", "") EXCEPT !.c.tls_started = TRUE]
    ELSE [Log(t, "tls", "") EXCEPT !.faulted = TRUE, !.tls_failed = TRUE]

\* start_tls() answering True on a synchronous strategy whatever the collaborator said
start_tls_true_whatever(t, read_server_info) ==
    IF Failed(t) THEN t
    ELSE IF start_tls_defers(t.c)
    THEN [t EXCEPT !.c.deferred_start_tls = TRUE, !.c.tls_started = TRUE,
                   !.ret = RetBool(TRUE)]
    ELSE With(tls_start_tls([t EXCEPT !.c.deferred_start_tls = FALSE]), LAMBDA t1 :
         IF StrategySync(t.c.strategy_type)
         THEN With(IF read_server_info THEN refresh_server_info(t1) ELSE t1, LAMBDA t2 :
              IF Failed(t2) THEN t2 ELSE [t2 EXCEPT !.ret = RetBool(TRUE)])
         ELSE [t1 EXCEPT !.ret = RetBool(TRUE)])

start_tls(t, read_server_info) ==
    IF Failed(t) THEN t
    ELSE IF start_tls_defers(t.c)
    THEN [t EXCEPT !.c.deferred_start_tls = TRUE, !.c.tls_started = TRUE,
                   !.ret = RetBool(TRUE)]
    ELSE With(tls_start_tls([t EXCEPT !.c.deferred_start_tls = FALSE]), LAMBDA t1 :
         IF t.env.fault # "tls" /\ StrategySync(t.c.strategy_type)
         THEN With(IF read_server_info THEN refresh_server_info(t1) ELSE t1, LAMBDA t2 :
              IF Failed(t2) THEN t2 ELSE [t2 EXCEPT !.ret = RetBool(TRUE)])
         ELSE IF ~StrategySync(t.c.strategy_type) THEN [t1 EXCEPT !.ret = RetBool(TRUE)]
         ELSE [t1 EXCEPT !.ret = RetBool(FALSE)])

\* sasl_external / sasl_digest_md5: the mechanism negotiator exchanges bind messages
\* and returns the final outcome
sasl_negotiate(t) ==
    With(post_send(send(t, "bindRequest", t.c.sasl_mechanism), "bindRequest",
                   t.env.bindCode, <<>>), LAMBDA t1 :
    IF Failed(t1) THEN t1
    ELSE IF t1.resp.kind = "list" THEN t1
    ELSE get_response(t1, t.env.bindCode, t.env.bindAvail))

do_sasl_bind(t, controls) ==
    IF Failed(t) THEN t
    ELSE IF ~t.c.sasl_in_progress
    THEN With(sasl_negotiate([t EXCEPT !.resp = [kind |-> "None", id |-> 0,
                                                 result |-> NoneResult, creds |-> FALSE],
                                       !.c.sasl_in_progress = TRUE]), LAMBDA t1 :
         IF Failed(t1) THEN t1 ELSE [t1 EXCEPT !.c.sasl_in_progress = FALSE])
    ELSE [t EXCEPT !.resp = [kind |-> "None", id |-> 0,
                             result |-> NoneResult, creds |-> FALSE]]

\* bind_response_dict_to_sicily_bind_response_dict(response[0]): response[0] needs a list
sicily_response(t, offered) ==
    IF Failed(t) THEN t
    ELSE IF t.resp.kind # "list" THEN [t EXCEPT !.exc = "TypeError"]
    ELSE [t EXCEPT !.resp.creds = offered,
                   !.rounds = Append(@, [result |-> t.resp.result.result,
                                         creds |-> offered])]

\* the NTLM rounds with the response round sent whatever the negotiate round gave
ntlm_bind_always_responds(t, controls) ==
    IF ~t.env.ntlmSupport THEN [t EXCEPT !.exc = "LDAPPackageUnavailableError"]
    ELSE With(sicily_response(
                  post_send(send(t, "bindRequest", "SICILY_PACKAGE_DISCOVERY"),
                            "bindRequest", t.env.discCode, <<>>),
                  t.env.ntlmOffered), LAMBDA t1 :
         IF Failed(t1) \/ ~t1.resp.creds THEN t1
         ELSE With(sicily_response(
                       post_send(send(t1, "bindRequest", "SICILY_NEGOTIATE_NTLM"),
                                 "bindRequest", t.env.negCode, <<>>),
                       TRUE), LAMBDA t2 :
              IF Failed(t2) THEN t2
              ELSE sicily_response(
                       post_send(send(t2, "bindRequest", "SICILY_RESPONSE_NTLM"),
                                 "bindRequest", t.env.bindCode, <<>>),
                       TRUE)))

\* lines 396-425: the NTLM (sicily) rounds
ntlm_bind(t, controls) ==
    IF ~t.env.ntlmSupport THEN [t EXCEPT !.exc = "LDAPPackageUnavailableError"]
    ELSE With(sicily_response(
                  post_send(send(t, "bindRequest", "SICILY_PACKAGE_DISCOVERY"),
                            "bindRequest", t.env.discCode, <<>>),
                  t.env.ntlmOffered), LAMBDA t1 :
         IF Failed(t1) \/ ~t1.resp.creds THEN t1
         ELSE With(sicily_response(
                       post_send(send(t1, "bindRequest", "SICILY_NEGOTIATE_NTLM"),
                                 "bindRequest", t.env.negCode, <<>>),
                       TRUE), LAMBDA t2 :
              IF Failed(t2) \/ t2.resp.result.result # RESULT_SUCCESS THEN t2
              ELSE sicily_response(
                       post_send(send(t2, "bindRequest", "SICILY_RESPONSE_NTLM"),
                                 "bindRequest", t.env.bindCode, <<>>),
                       TRUE)))

\* the exchange with every SASL mechanism handed to the negotiators
bind_exchange_without_allow_list(t, controls) ==
    IF Failed(t) THEN t
    ELSE CASE t.c.authentication \in {"ANONYMOUS", "SIMPLE"} ->
                post_send(send(t, "bindRequest", t.c.authentication), "bindRequest",
                          t.env.bindCode, <<>>)
           [] t.c.authentication = "SASL" -> do_sasl_bind(t, controls)
           [] t.c.authentication = "NTLM" /\ t.c.credentials -> ntlm_bind(t, controls)
           [] t.c.authentication = "NTLM" /\ ~t.c.credentials ->
                Raise(t, "LDAPUnknownAuthenticationMethodError",
                      "NTLM needs domain\\username and a password")
           [] OTHER -> Raise(t, "LDAPUnknownAuthenticationMethodError",
                             "unknown authentication method")

\* lines 384-431: the exchange selected by the authentication method
bind_exchange(t, controls) ==
    IF Failed(t) THEN t
    ELSE CASE t.c.authentication \in {"ANONYMOUS", "SIMPLE"} ->
                post_send(send(t, "bindRequest", t.c.authentication), "bindRequest",
                          t.env.bindCode, <<>>)
           [] t.c.authentication = "SASL" ->
                IF t.c.sasl_mechanism \in SASL_AVAILABLE_MECHANISMS
                THEN do_sasl_bind(t, controls)
                ELSE Raise(t, "LDAPSASLMechanismNotSupportedError",
                           "requested SASL mechanism not supported")
           [] t.c.authentication = "NTLM" /\ t.c.credentials -> ntlm_bind(t, controls)
           [] t.c.authentication = "NTLM" /\ ~t.c.credentials ->
                Raise(t, "LDAPUnknownAuthenticationMethodError",
                      "NTLM needs domain\\username and a password")
           [] OTHER -> Raise(t, "LDAPUnknownAuthenticationMethodError",
                             "unknown authentication method")

\* lines 433-443: the result the outcome of the bind is read from
bind_result(t) ==
    IF Failed(t) THEN t
    ELSE IF ~StrategySync(t.c.strategy_type) /\ t.c.authentication # "SASL"
    THEN get_response(t, t.env.bindCode, t.env.bindAvail)
    ELSE IF StrategySync(t.c.strategy_type) THEN [t EXCEPT !.resp.result = t.c.result]
    ELSE t

\* lines 445-451 binding every session that got no result
bind_outcome_bound_without_result(t) ==
    IF Failed(t) THEN t
    ELSE With(IF t.resp.result = NoneResult THEN TRUE
              ELSE t.resp.result.result = RESULT_SUCCESS, LAMBDA bound :
         [t EXCEPT !.c.bound = bound, !.c.authenticated = bound,
                   !.result = t.resp.result,
                   !.c.last_error = IF /\ ~bound /\ t.resp.result # NoneResult
                                       /\ t.resp.result.description # ""
                                    THEN t.resp.result.description ELSE @])

\* lines 445-451; authenticated is no field of the program: it records that the last
\* bind request on the transport got a success result (or, with the pooled strategy,
\* was dispatched), and a new or closed transport has none
bind_outcome(t) ==
    IF Failed(t) THEN t
    ELSE With(IF t.resp.result = NoneResult THEN t.c.strategy_type = "REUSABLE"
              ELSE t.resp.result.result = RESULT_SUCCESS, LAMBDA bound :
         [t EXCEPT !.c.bound = bound, !.c.authenticated = bound,
                   !.result = t.resp.result,
                   !.c.last_error = IF /\ ~bound /\ t.resp.result # NoneResult
                                       /\ t.resp.result.description # ""
                                    THEN t.resp.result.description ELSE @])

bind(t, read_server_info, controls) ==
    IF Failed(t) THEN t
    ELSE With(IF bind_defers(t.c)
              THEN [t EXCEPT !.c.deferred_bind = TRUE, !.c.bind_controls = controls,
                             !.c.bound = TRUE]
              ELSE With([t EXCEPT !.c.deferred_bind = FALSE,
                                  !.c.bind_controls = NoControls], LAMBDA t0 :
                   With(IF t0.c.closed THEN strategy_open(t0, FALSE) ELSE t0, LAMBDA t1 :
                   With(bind_outcome(bind_result(bind_exchange(
                            IF Failed(t1) THEN t1 ELSE Log(t1, "bind", ""), controls))),
                        LAMBDA t3 :
                   IF ~Failed(t3) /\ read_server_info /\ t3.c.bound
                   THEN refresh_server_info(t3) ELSE t3))),
              LAMBDA t5 :
         IF Failed(t5) THEN t5
         ELSE [t5 EXCEPT !.c.entries = NoneEntries, !.ret = RetBool(t5.c.bound)])

-----------------------------------------------------------------------------
(* Connection: deferred resolution and the operations *)

\* the resolution performing the deferred bind before the deferred TLS upgrade
_fire_deferred_bind_first(t) ==
    IF Failed(t) THEN t
    ELSE IF t.c.lazy /\ ~t.c.executing_deferred
    THEN With([t EXCEPT !.c.executing_deferred = TRUE, !.fired = @ + 1], LAMBDA t0 :
         With(IF t0.c.deferred_open THEN strategy_open(t0, FALSE) ELSE t0, LAMBDA t1 :
         With(IF ~Failed(t1) /\ t1.c.deferred_bind
              THEN bind(t1, FALSE, t1.c.bind_controls) ELSE t1, LAMBDA t2 :
         With(IF ~Failed(t2) /\ t2.c.deferred_start_tls
              THEN start_tls(t2, FALSE) ELSE t2, LAMBDA t3 :
         [refresh_server_info(t3) EXCEPT !.c.executing_deferred = FALSE]))))
    ELSE t

\* the resolution resetting its flag only when it ends normally
_fire_deferred_resets_on_return(t) ==
    IF Failed(t) THEN t
    ELSE IF t.c.lazy /\ ~t.c.executing_deferred
    THEN With([t EXCEPT !.c.executing_deferred = TRUE, !.fired = @ + 1], LAMBDA t0 :
         With(IF t0.c.deferred_open THEN strategy_open(t0, FALSE) ELSE t0, LAMBDA t1 :
         With(IF ~Failed(t1) /\ t1.c.deferred_start_tls
              THEN start_tls(t1, FALSE) ELSE t1, LAMBDA t2 :
         With(IF ~Failed(t2) /\ t2.c.deferred_bind
              THEN bind(t2, FALSE, t2.c.bind_controls) ELSE t2, LAMBDA t3 :
         With(refresh_server_info(t3), LAMBDA t4 :
         IF Failed(t4) THEN t4 ELSE [t4 EXCEPT !.c.executing_deferred = FALSE])))))
    ELSE t

_fire_deferred(t) ==
    IF Failed(t) THEN t
    ELSE IF t.c.lazy /\ ~t.c.executing_deferred
    THEN With([t EXCEPT !.c.executing_deferred = TRUE, !.fired = @ + 1], LAMBDA t0 :
         With(IF t0.c.deferred_open THEN strategy_open(t0, FALSE) ELSE t0, LAMBDA t1 :
         With(IF ~Failed(t1) /\ t1.c.deferred_start_tls
              THEN start_tls(t1, FALSE) ELSE t1, LAMBDA t2 :
         With(IF ~Failed(t2) /\ t2.c.deferred_bind
              THEN bind(t2, FALSE, t2.c.bind_controls) ELSE t2, LAMBDA t3 :
         [refresh_server_info(t3) EXCEPT !.c.executing_deferred = FALSE]))))
    ELSE t

\* the deferred resolution of a public operation returned: the body of the operation
\* is reached, and what it sends from here on is its own
own_part(t) ==
    IF Failed(t) \/ t.c.executing_deferred THEN t
    ELSE [t EXCEPT !.own = Len(t.wire), !.reached = TRUE, !.entry = t.c]

\* the result code is not looked at
result_is_of_type(t, type, code) ==
    IF t.c.result = NoneResult THEN [t EXCEPT !.exc = "TypeError"]
    ELSE [t EXCEPT !.ret = RetBool(t.c.result.type = type)]

\* self.result['type'] == type and self.result['result'] == code
result_is(t, type, code) ==
    IF t.c.result = NoneResult THEN [t EXCEPT !.exc = "TypeError"]
    ELSE [t EXCEPT !.ret = RetBool(t.c.result.type = type /\ t.c.result.result = code)]

\* lines 592-596 and the like: self._entries = None, then the response itself when it
\* is a handle (or text), else whether the result is the expected one
outcome(t, handles, type, code) ==
    IF Failed(t) THEN t
    ELSE IF t.resp.kind \in handles
    THEN [t EXCEPT !.c.entries = NoneEntries,
                   !.ret = [kind |-> t.resp.kind, b |-> FALSE, n |-> t.resp.id]]
    ELSE result_is([t EXCEPT !.c.entries = NoneEntries], type, code)

\* a Python value given to search() as attributes or controls: None, a string, or a
\* list or a tuple with its items
Py(kind, items) == [kind |-> kind, items |-> items]

\* lines 508-526: what the request is built from, and the objects the caller holds
\* after it. A list or tuple the caller gave stays the caller's object (own), the
\* lists made at lines 509, 511 and 523 are new; list.append changes the list object,
\* "+=" on a tuple makes a new tuple
search_arguments(a) ==
    With(IF a.attributes.items = <<>>
         THEN [own |-> FALSE, value |-> Py("list", <<NO_ATTRIBUTES>>)]
         ELSE IF a.attributes = Py("str", <<ALL_ATTRIBUTES>>)
         THEN [own |-> FALSE, value |-> Py("list", <<ALL_ATTRIBUTES>>)]
         ELSE [own |-> TRUE, value |-> a.attributes], LAMBDA given :
    With(IF a.get_operational_attributes /\ given.value.kind = "list"
         THEN [given EXCEPT !.value.items = Append(@, ALL_OPERATIONAL_ATTRIBUTES)]
         ELSE IF a.get_operational_attributes /\ given.value.kind = "tuple"
         THEN [own |-> FALSE,
               value |-> Py("tuple", Append(given.value.items, ALL_OPERATIONAL_ATTRIBUTES))]
         ELSE given, LAMBDA attributes :
    With(IF ~a.paged THEN [own |-> a.controls.kind # "None", value |-> a.controls]
         ELSE IF a.controls.kind = "None"
         THEN [own |-> FALSE, value |-> Py("list", <<PAGED_RESULTS>>)]
         ELSE [own |-> TRUE,
               value |-> [a.controls EXCEPT !.items = Append(@, PAGED_RESULTS)]],
         LAMBDA controls :
    [request |-> [attributes |-> attributes.value.items, controls |-> controls.value.items],
     caller |-> [attributes |-> IF attributes.own THEN attributes.value ELSE a.attributes,
                 controls |-> IF controls.own THEN controls.value ELSE a.controls]])))

\* lines 507 and 526-534: the resolution, the request sent and what search() returns
search_request(t, request) ==
    With(own_part(_fire_deferred(t)), LAMBDA t1 :
    With(post_send(send(t1, "searchRequest", request), "searchRequest",
                   t.env.opCode, t.env.hits), LAMBDA t2 :
    IF Failed(t2) THEN t2
    ELSE IF t2.resp.kind = "int"
    THEN [t2 EXCEPT !.c.entries = NoneEntries, !.ret = RetInt(t2.resp.id)]
    ELSE IF t2.c.result = NoneResult
    THEN [t2 EXCEPT !.c.entries = NoneEntries, !.exc = "TypeError"]
    ELSE [t2 EXCEPT !.c.entries = NoneEntries,
                    !.ret = RetBool(t2.c.result.type = "searchResDone"
                                    /\ Len(t.env.hits) > 0)]))

\* search() with the attributes and controls left to their defaults
search(t, a) == search_request(t, "search")

compare(t, a) ==
    With(own_part(_fire_deferred(t)), LAMBDA t1 :
    outcome(post_send(send(t1, "compareRequest", "compare"), "compareRequest",
                      t.env.opCode, <<>>),
            {"int"}, "compareResponse", RESULT_COMPARE_TRUE))

add(t, a) ==
    With(own_part(_fire_deferred(t)), LAMBDA t1 :
    outcome(IF Failed(t1) THEN t1
            ELSE IF ~a.object_class
            THEN Raise(t1, "LDAPObjectClassError", "ObjectClass attribute is mandatory")
            ELSE post_send(send(t1, "addRequest", "add"), "addRequest", t.env.opCode, <<>>),
            {"str", "int"}, "addResponse", RESULT_SUCCESS))

\* delete() looking at the read-only flag only after the request has left
delete_checks_after_send(t, a) ==
    With(own_part(_fire_deferred(t)), LAMBDA t1 :
    With(IF Failed(t1) THEN t1
         ELSE post_send(send(t1, "delRequest", "delete"), "delRequest", t.env.opCode, <<>>),
         LAMBDA t2 :
    outcome(IF ~Failed(t2) /\ t2.c.read_only
            THEN Raise(t2, "LDAPConnectionIsReadOnlyError", "connection is read-only")
            ELSE t2,
            {"str", "int"}, "delResponse", RESULT_SUCCESS)))

delete(t, a) ==
    With(own_part(_fire_deferred(t)), LAMBDA t1 :
    outcome(IF Failed(t1) THEN t1
            ELSE IF t1.c.read_only
            THEN Raise(t1, "LDAPConnectionIsReadOnlyError", "connection is read-only")
            ELSE post_send(send(t1, "delRequest", "delete"), "delRequest", t.env.opCode, <<>>),
            {"str", "int"}, "delResponse", RESULT_SUCCESS))

\* lines 643-649: a change is offending when its tuple has not two elements or its
\* change type is unknown
malformed_when_longer(change) == change.len > 2
malformed(change) == change.len # 2
unknown_type(change) ==
    change.op \notin {MODIFY_ADD, MODIFY_DELETE, MODIFY_REPLACE, MODIFY_INCREMENT, 0, 1, 2, 3}
offending(changes) == {ch \in changes.items : malformed(ch) \/ unknown_type(ch)}

\* the loop raises for the offending change the iteration of the dictionary meets first
check_changes(changes, first) ==
    IF offending(changes) = {} THEN ""
    ELSE IF malformed(first) THEN "malformed change"
    ELSE "unknown change type"

modify(t, a) ==
    With(own_part(_fire_deferred(t)), LAMBDA t1 :
    outcome(IF Failed(t1) THEN t1
            ELSE IF t1.c.read_only
            THEN Raise(t1, "LDAPConnectionIsReadOnlyError", "connection is read-only")
            ELSE IF ~a.changes.isDict
            THEN Raise(t1, "LDAPChangesError", "changes must be a dictionary")
            ELSE IF a.changes.items = {}
            THEN Raise(t1, "LDAPChangesError", "no changes in modify request")
            ELSE IF check_changes(a.changes, a.first) # ""
            THEN Raise(t1, "LDAPChangesError", check_changes(a.changes, a.first))
            ELSE post_send(send(t1, "modifyRequest", "modify"), "modifyRequest",
                           t.env.opCode, <<>>),
            {"str", "int"}, "modifyResponse", RESULT_SUCCESS))

\* str.startswith
startswith(dn, prefix) ==
    Len(prefix) <= Len(dn) /\ SubSeq(dn, 1, Len(prefix)) = prefix

\* new_superior tested against None instead of for its truth value
new_superior_not_none(new_superior) == ~new_superior.none

\* the truth value of new_superior: None and the empty string are false
new_superior_given(new_superior) == ~new_superior.none /\ Len(new_superior.dn) > 0

modify_dn(t, a) ==
    With(own_part(_fire_deferred(t)), LAMBDA t1 :
    outcome(IF Failed(t1) THEN t1
            ELSE IF t1.c.read_only
            THEN Raise(t1, "LDAPConnectionIsReadOnlyError", "connection is read-only")
            ELSE IF new_superior_given(a.new_superior) /\ ~startswith(a.dn, a.relative_dn)
            THEN Raise(t1, "LDAPChangesError", "DN cannot change while moving")
            ELSE post_send(send(t1, "modDNRequest", "modify_dn"), "modDNRequest",
                           t.env.opCode, <<>>),
            {"str", "int"}, "modDNResponse", RESULT_SUCCESS))

\* abandon() not looking the message id up among the outstanding requests
abandonable_whatever_id(outstanding, message_id) == DOMAIN outstanding # {}

\* lines 695-696: the request can be abandoned
abandonable(outstanding, message_id) ==
    /\ DOMAIN outstanding # {}
    /\ message_id \in DOMAIN outstanding
    /\ outstanding[message_id] \notin {"abandonRequest", "bindRequest", "unbindRequest"}

abandon(t, a) ==
    With(own_part(_fire_deferred(t)), LAMBDA t1 :
    IF Failed(t1) THEN t1
    ELSE IF abandonable(t1.c.outstanding, a.message_id)
    THEN With(send(t1, "abandonRequest", "abandon"), LAMBDA t2 :
         IF Failed(t2) THEN t2
         ELSE [t2 EXCEPT !.c.result = NoneResult, !.c.response = NoneResponse,
                         !.c.entries = NoneEntries, !.ret = RetBool(TRUE)])
    ELSE [t1 EXCEPT !.ret = RetBool(FALSE)])

extended(t, a) ==
    With(own_part(_fire_deferred(t)), LAMBDA t1 :
    outcome(post_send(send(t1, "extendedReq", "extended"), "extendedReq", t.env.opCode, <<>>),
            {"int"}, "extendedResp", RESULT_SUCCESS))

unbind(t, controls) ==
    IF Failed(t) THEN t
    ELSE With(IF /\ t.c.lazy /\ ~t.c.executing_deferred
                 /\ (t.c.deferred_bind \/ t.c.deferred_open)
              THEN [strategy_close(t) EXCEPT !.c.deferred_open = FALSE,
                                             !.c.deferred_bind = FALSE,
                                             !.c.deferred_start_tls = FALSE]
              ELSE IF ~t.c.closed
              THEN strategy_close(send(t, "unbindRequest", "unbind"))
              ELSE t, LAMBDA t1 :
         IF Failed(t1) THEN t1 ELSE [t1 EXCEPT !.ret = RetBool(TRUE)])

\* the stream property (lines 310-315): None unless the strategy can stream
stream(c) == c.strategy_type = "LDIF"

\* __enter__ (lines 337-345). The third field of a saved status is no part of it: it
\* tells that __enter__ returned, so that the with statement runs its body and will
\* call __exit__
__enter__(t) ==
    With([t EXCEPT !.c.context_state =
                      Append(@, [bound |-> t.c.bound, closed |-> t.c.closed,
                                 entered |-> FALSE])], LAMBDA t0 :
    With(IF t0.c.closed THEN strategy_open(t0, TRUE) ELSE t0, LAMBDA t1 :
    With(IF ~Failed(t1) /\ ~t1.c.bound THEN bind(t1, TRUE, NoControls) ELSE t1, LAMBDA t2 :
    IF Failed(t2) THEN t2
    ELSE [t2 EXCEPT !.ret = RetNone,
                    !.c.context_state[Len(t2.c.context_state)].entered = TRUE])))

\* the unbind() of __exit__ under "except LDAPExceptionError: pass" (lines 352-355)
unbind_quietly(t) ==
    With(unbind(t, NoControls), LAMBDA t1 : [t1 EXCEPT !.exc = NoExc])

\* the saved status that belongs to the innermost with statement running its body
Innermost(context_state) ==
    CHOOSE m \in DOMAIN context_state :
        /\ context_state[m].entered
        /\ \A n \in DOMAIN context_state : context_state[n].entered => n <= m

\* the with statement whose __exit__ is called is left: its saved status, when it is
\* not the one that was popped, no longer belongs to a running body
Left(context_state) ==
    IF Innermost(context_state) = Len(context_state)
    THEN SubSeq(context_state, 1, Len(context_state) - 1)
    ELSE [SubSeq(context_state, 1, Len(context_state) - 1)
             EXCEPT ![Innermost(context_state)].entered = FALSE]

\* __exit__ (lines 348-361): pops the last saved status and restores it
__exit__(t, raised) ==
    With(t.c.context_state[Len(t.c.context_state)], LAMBDA context :
    With([t EXCEPT !.c.context_state = Left(@)], LAMBDA t0 :
    With(IF (~context.bound /\ t0.c.bound) \/ stream(t0.c)
         THEN unbind_quietly(t0) ELSE t0, LAMBDA t1 :
    With(IF ~context.closed /\ t1.c.closed THEN strategy_open(t1, TRUE) ELSE t1, LAMBDA t2 :
    IF Failed(t2) THEN t2
    ELSE [t2 EXCEPT !.ret = IF raised THEN RetBool(FALSE) ELSE RetNone]))))

\* Server.get_info_from_server(connection): reads the server's metadata with a search
\* on the same connection, collecting its response (there is no server to ask behind
\* a no-real-endpoint strategy)
get_info_from_server(t) ==
    With(IF StrategyNoRealDsa(t.c.strategy_type) THEN t
         ELSE search(t, [attributes |-> "*"]), LAMBDA t1 :
    IF Failed(t1) THEN t1
    ELSE IF t1.resp.kind = "int"
    THEN [t1 EXCEPT !.c.outstanding = Without(@, t1.resp.id)]
    ELSE t1)

refresh_server_info(t) ==
    IF Failed(t) THEN t
    ELSE IF ~StrategyPooled(t.c.strategy_type) /\ ~t.c.closed
    THEN With(get_info_from_server(t), LAMBDA t1 :
         IF Failed(t1) THEN t1
         ELSE [t1 EXCEPT !.c.response = t.c.response, !.c.result = t.c.result,
                         !.c.entries = t.c.entries])
    ELSE t

\* the entries property (lines 860-865); _get_entries builds the entries from the response
\* lines 862-863: there is a response and no entries are cached
entries_missing(c) == Truthy(c.response) /\ c.entries.none

\* lines 872-876: the attribute sets of the results, each once, as they appear
RECURSIVE attr_sets(_, _)
attr_sets(list, found) ==
    IF list = <<>> THEN found
    ELSE attr_sets(Tail(list),
                   IF \E i \in DOMAIN found : found[i] = Head(list) THEN found
                   ELSE Append(found, Head(list)))

\* the sort in ascending length order
RECURSIVE sort_ascending(_)
sort_ascending(sets) ==
    IF sets = <<>> THEN <<>>
    ELSE With(CHOOSE i \in DOMAIN sets :
                  /\ \A j \in DOMAIN sets : Cardinality(sets[j]) >= Cardinality(sets[i])
                  /\ \A j \in 1..(i - 1) : Cardinality(sets[j]) > Cardinality(sets[i]),
              LAMBDA i : <<sets[i]>> \o sort_ascending(SubSeq(sets, 1, i - 1)
                                                       \o SubSeq(sets, i + 1, Len(sets))))

\* line 877: attr_sets.sort(key=lambda x: -len(x)), a stable sort in descending length
RECURSIVE sort_descending(_)
sort_descending(sets) ==
    IF sets = <<>> THEN <<>>
    ELSE With(CHOOSE i \in DOMAIN sets :
                  /\ \A j \in DOMAIN sets : Cardinality(sets[j]) <= Cardinality(sets[i])
                  /\ \A j \in 1..(i - 1) : Cardinality(sets[j]) < Cardinality(sets[i]),
              LAMBDA i : <<sets[i]>> \o sort_descending(SubSeq(sets, 1, i - 1)
                                                        \o SubSeq(sets, i + 1, Len(sets))))

\* lines 878-884: a set is kept unless a set kept before it is a superset of it
RECURSIVE unique_attr_sets(_, _)
unique_attr_sets(sets, kept) ==
    IF sets = <<>> THEN kept
    ELSE unique_attr_sets(Tail(sets),
                          IF \E i \in DOMAIN kept : Head(sets) \subseteq kept[i] THEN kept
                          ELSE Append(kept, Head(sets)))

\* lines 885-889: one ObjectDef for each set kept
object_defs(list) == unique_attr_sets(sort_descending(attr_sets(list, <<>>)), <<>>)

\* lines 894-895: the ObjectDefs whose set holds the attributes of the result
matching(resp_attr_set, defs) == {i \in DOMAIN defs : resp_attr_set \subseteq defs[i]}

\* lines 910-911: the for loop of a result ends without a break
unmatched(list) ==
    \E r \in DOMAIN list : matching(list[r], object_defs(list)) = {}

\* lines 894-909: the loop stops on the first ObjectDef that matches
object_def(resp_attr_set, defs) ==
    defs[CHOOSE i \in matching(resp_attr_set, defs) :
             \A j \in matching(resp_attr_set, defs) : i <= j]

\* _get_entries(search_response), lines 867-912: the entries of that response, each
\* with the attribute set of the ObjectDef it was read with
_get_entries(search_response) ==
    [none |-> FALSE, of |-> search_response,
     signatures |-> [r \in DOMAIN search_response.list |->
                        object_def(search_response.list[r],
                                   object_defs(search_response.list))]]

\* the automatic bind upgrading to TLS before the bind in both TLS modes
auto_bind_steps_tls_first(t, auto_bind) ==
    IF StrategyNoRealDsa(t.c.strategy_type) \/ auto_bind = "AUTO_BIND_NONE" THEN t
    ELSE With(strategy_open(t, FALSE), LAMBDA t1 :
         With(CASE auto_bind = "AUTO_BIND_NO_TLS" -> bind(t1, TRUE, NoControls)
                [] auto_bind = "AUTO_BIND_TLS_BEFORE_BIND" ->
                       bind(start_tls(t1, FALSE), TRUE, NoControls)
                [] auto_bind = "AUTO_BIND_TLS_AFTER_BIND" ->
                       bind(start_tls(t1, TRUE), FALSE, NoControls), LAMBDA t2 :
         IF Failed(t2) THEN t2
         ELSE IF ~t2.c.bound
         THEN Raise(t2, "LDAPBindError",
                    IF t2.c.last_error # NoError THEN "automatic bind not successful - error"
                    ELSE "automatic bind not successful")
         ELSE t2))

\* lines 251-264 of __init__
auto_bind_steps(t, auto_bind) ==
    IF StrategyNoRealDsa(t.c.strategy_type) \/ auto_bind = "AUTO_BIND_NONE" THEN t
    ELSE With(strategy_open(t, FALSE), LAMBDA t1 :
         With(CASE auto_bind = "AUTO_BIND_NO_TLS" -> bind(t1, TRUE, NoControls)
                [] auto_bind = "AUTO_BIND_TLS_BEFORE_BIND" ->
                       bind(start_tls(t1, FALSE), TRUE, NoControls)
                [] auto_bind = "AUTO_BIND_TLS_AFTER_BIND" ->
                       start_tls(bind(t1, FALSE, NoControls), TRUE), LAMBDA t2 :
         IF Failed(t2) THEN t2
         ELSE IF ~t2.c.bound
         THEN Raise(t2, "LDAPBindError",
                    IF t2.c.last_error # NoError THEN "automatic bind not successful - error"
                    ELSE "automatic bind not successful")
         ELSE t2))

-----------------------------------------------------------------------------
(* What the environment can answer during one call *)

DefaultEnv ==
    [fault |-> "none", bindCode |-> RESULT_SUCCESS,
     bindAvail |-> TRUE, ntlmSupport |-> TRUE, ntlmOffered |-> TRUE,
     discCode |-> RESULT_SUCCESS, negCode |-> RESULT_SUCCESS,
     opCode |-> RESULT_SUCCESS, hits |-> <<>>]

Codes == {RESULT_SUCCESS, RESULT_OTHER}
Hits == {<<>>, <<{"a"}>>}

\* the results of a search, each with the attributes the server returned for it
Attributes == {"a", "b", "c"}
Results == UNION {[1..n -> SUBSET Attributes] : n \in 0..MaxResults}

LifeCycleOps == {"open", "start_tls", "bind", "unbind", "__init__", "__enter__", "__exit__"}
FireOps == {"search", "compare", "add", "delete", "modify", "modify_dn", "abandon", "extended"}

\* what can fail during a call: the open, the TLS upgrade, or the n-th send
Faults(c, op) ==
    LET real == ~StrategyNoRealDsa(c.strategy_type)
        direct == op \in LifeCycleOps /\ ~c.lazy
        fires == op \in FireOps /\ c.lazy
        tls == (direct /\ op \in {"start_tls", "__init__"}) \/ (fires /\ c.deferred_start_tls)
    IN IF faults >= MaxFaults THEN {"none"}
       ELSE {"none"}
            \cup (IF real /\ ~c.socket /\ (direct \/ fires) THEN {"open"} ELSE {})
            \cup (IF tls THEN {"tls"} ELSE {})
            \cup (IF real /\ (direct \/ op \in FireOps \/ op = "unbind")
                  THEN {SendFault(n) : n \in 1..MaxFailAt} ELSE {})

Envs(c, op) ==
    LET direct == op \in LifeCycleOps /\ ~c.lazy
        fires == op \in FireOps /\ c.lazy
        binds == (direct /\ op \in {"bind", "__init__", "__enter__"})
                 \/ (fires /\ c.deferred_bind)
        ntlm == binds /\ c.authentication = "NTLM" /\ c.credentials
    IN [fault : Faults(c, op),
        bindCode : IF binds THEN Codes ELSE {RESULT_SUCCESS},
        bindAvail : IF binds /\ ~StrategySync(c.strategy_type) THEN BOOLEAN ELSE {TRUE},
        ntlmSupport : IF ntlm THEN BOOLEAN ELSE {TRUE},
        ntlmOffered : IF ntlm THEN BOOLEAN ELSE {TRUE},
        discCode : IF ntlm THEN Codes ELSE {RESULT_SUCCESS},
        negCode : IF ntlm THEN Codes ELSE {RESULT_SUCCESS},
        opCode : IF op = "compare" THEN Codes \cup {RESULT_COMPARE_TRUE}
                 ELSE IF op \in FireOps \ {"abandon"} THEN Codes ELSE {RESULT_SUCCESS},
        hits : IF op = "search" THEN Hits ELSE {<<>>}]

-----------------------------------------------------------------------------
(* Arguments of the calls *)

\* what a caller gives to search() as an argument: a value made for the call, or the
\* object given to the search before, as it is now
Given(argument, values) ==
    values \cup (IF call.op = "search" /\ "caller" \in DOMAIN call.args
                 THEN {call.args.caller[argument]} ELSE {})

NoArgs == [none |-> TRUE]
Controls == {NoControls, 1}

\* one change: the length of the tuple given for an attribute and its change type;
\* a change set is no dictionary, or the changes of its attributes (a dictionary has
\* no order: any of its items can be the first the loop meets)
Changes == {[len |-> 2, op |-> MODIFY_INCREMENT], [len |-> 2, op |-> 4],
            [len |-> 1, op |-> MODIFY_REPLACE]}
ChangeSets ==
    {[isDict |-> FALSE, items |-> {}]} \cup {[isDict |-> TRUE, items |-> S] : S \in SUBSET Changes}
NoChange == [len |-> 2, op |-> MODIFY_ADD]
Firsts(changes) == IF offending(changes) = {} THEN {NoChange} ELSE offending(changes)

Dns == {<<"a", "b">>}
RelativeDns == {<<"a">>, <<"b">>}
Superiors == {[none |-> TRUE, dn |-> <<>>], [none |-> FALSE, dn |-> <<>>],
              [none |-> FALSE, dn |-> <<"c">>]}

-----------------------------------------------------------------------------
(* The state after the field initialisation of __init__ (lines 156-249) *)

AuthSettings ==
    {[authentication |-> "ANONYMOUS", sasl_mechanism |-> "None", credentials |-> FALSE],
     [authentication |-> "SIMPLE", sasl_mechanism |-> "None", credentials |-> TRUE],
     [authentication |-> "SASL", sasl_mechanism |-> "EXTERNAL", credentials |-> FALSE],
     [authentication |-> "SASL", sasl_mechanism |-> "GSSAPI", credentials |-> FALSE],
     [authentication |-> "NTLM", sasl_mechanism |-> "None", credentials |-> TRUE],
     [authentication |-> "NTLM", sasl_mechanism |-> "None", credentials |-> FALSE]}

NewConnection(client_strategy, auth, lazy, read_only) ==
    [strategy_type |-> client_strategy,
     authentication |-> auth.authentication,
     sasl_mechanism |-> auth.sasl_mechanism,
     credentials |-> auth.credentials,
     lazy |-> lazy,
     read_only |-> read_only,
     raise_exceptions |-> FALSE,
     result |-> NoneResult,
     response |-> NoneResponse,
     bound |-> FALSE,
     closed |-> TRUE,
     last_error |-> NoError,
     socket |-> FALSE,
     authenticated |-> FALSE,
     tls_started |-> FALSE,
     sasl_in_progress |-> FALSE,
     deferred_open |-> FALSE,
     deferred_bind |-> FALSE,
     deferred_start_tls |-> FALSE,
     bind_controls |-> NoControls,
     executing_deferred |-> FALSE,
     entries |-> NoneEntries,
     outstanding |-> NoOutstanding,
     usage |-> NoUsage,
     pool |-> NoPool,
     context_state |-> <<>>]

Simple == [authentication |-> "SIMPLE", sasl_mechanism |-> "None", credentials |-> TRUE]

NoCall ==
    [op |-> "", args |-> NoArgs, pre |-> NewConnection("SYNC", Simple, FALSE, FALSE),
     wire |-> <<>>, own |-> 0, reached |-> FALSE,
     outstanding |-> NoOutstanding, exc |-> NoExc, ret |-> RetNone,
     fired |-> 0, after_bind |-> FALSE, result |-> NoneResult, rounds |-> <<>>,
     fault |-> "none"]

\* the Connection was given one of these settings
ConstructedWith(kinds, auths, lazies, read_onlys, raise_modes) ==
    /\ \E k \in kinds, auth \in auths, lazy \in lazies, ro \in read_onlys,
          raise_exceptions \in raise_modes :
           conn = [NewConnection(k, auth, lazy, ro)
                      EXCEPT !.raise_exceptions = raise_exceptions]
    /\ call = NoCall
    /\ pc = "init"
    /\ faults = 0
    /\ calls = 0
    /\ reader = NoReader
    /\ lock = RLock
    /\ threads = [th \in Threads |-> Idle]

\* the same with raise_exceptions left at its default (line 151)
Constructed(kinds, auths, lazies, read_onlys) ==
    ConstructedWith(kinds, auths, lazies, read_onlys, {FALSE})

Init == ConstructedWith(CLIENT_STRATEGIES, AuthSettings, BOOLEAN, BOOLEAN, BOOLEAN)

-----------------------------------------------------------------------------
(* The public calls *)

\* the Connection was constructed and the caller goes on: a call runs as a whole
\* under the lock, which it finds free ("with self.lock" around every body)
Ready == pc = "ready" /\ calls < MaxCalls /\ lock.owner = NoThread

\* a request can be sent only while a message id is free
IdFree == Cardinality(DOMAIN conn.outstanding) < MaxMsgId

\* the call returned or raised: its effects on the Connection stay
Returned(t, op, args) ==
    /\ conn' = t.c
    /\ call' = [op |-> op, args |-> args, pre |-> conn, wire |-> t.wire, own |-> t.own,
                reached |-> t.reached, outstanding |-> t.entry.outstanding, exc |-> t.exc,
                ret |-> IF Failed(t) THEN RetNone ELSE t.ret,
                fired |-> t.fired, after_bind |-> call.op = "bind", result |-> t.result,
                rounds |-> t.rounds,
                fault |-> IF t.tls_failed THEN "tls"
                          ELSE IF t.faulted THEN t.wire[Len(t.wire)].type ELSE "none"]
    /\ faults' = IF t.faulted THEN faults + 1 ELSE faults
    /\ UNCHANGED <<reader, lock, threads>>

Return(t, op, args) ==
    /\ Returned(t, op, args)
    /\ calls' = IF op = "__init__" THEN 0 ELSE calls + 1

Construct ==
    /\ pc = "init"
    /\ \E auto_bind \in AUTO_BIND_MODES, env \in Envs(conn, "__init__") :
       \E t \in {auto_bind_steps(Frame(conn, env), auto_bind)} :
          /\ Return(t, "__init__", [auto_bind |-> auto_bind])
          /\ pc' = IF Failed(t) THEN "failed" ELSE "ready"

Open ==
    /\ Ready /\ IdFree
    /\ \E env \in Envs(conn, "open") :
          Return(strategy_open(Frame(conn, env), TRUE), "open", NoArgs)
    /\ UNCHANGED pc

StartTls ==
    /\ Ready /\ IdFree
    /\ \E read_server_info \in BOOLEAN, env \in Envs(conn, "start_tls") :
          Return(start_tls(Frame(conn, env), read_server_info), "start_tls",
                 [read_server_info |-> read_server_info])
    /\ UNCHANGED pc

Bind ==
    /\ Ready /\ IdFree
    /\ \E read_server_info \in {TRUE}, controls \in Controls, env \in Envs(conn, "bind") :
          Return(bind(Frame(conn, env), read_server_info, controls), "bind",
                 [read_server_info |-> read_server_info, controls |-> controls])
    /\ UNCHANGED pc

Unbind ==
    /\ Ready /\ IdFree
    /\ \E env \in Envs(conn, "unbind") :
          Return(unbind(Frame(conn, env), NoControls), "unbind", NoArgs)
    /\ UNCHANGED pc

Search ==
    /\ Ready /\ IdFree
    /\ \E env \in Envs(conn, "search") :
          Return(search(Frame(conn, env), NoArgs), "search", NoArgs)
    /\ UNCHANGED pc

Compare ==
    /\ Ready /\ IdFree
    /\ \E env \in Envs(conn, "compare") :
          Return(compare(Frame(conn, env), NoArgs), "compare", NoArgs)
    /\ UNCHANGED pc

Add ==
    /\ Ready /\ IdFree
    /\ \E object_class \in BOOLEAN, env \in Envs(conn, "add") :
          LET a == [object_class |-> object_class]
          IN Return(add(Frame(conn, env), a), "add", a)
    /\ UNCHANGED pc

Delete ==
    /\ Ready /\ IdFree
    /\ \E env \in Envs(conn, "delete") :
          Return(delete(Frame(conn, env), NoArgs), "delete", NoArgs)
    /\ UNCHANGED pc

Modify ==
    /\ Ready /\ IdFree
    /\ \E changes \in ChangeSets, env \in Envs(conn, "modify") :
       \E first \in Firsts(changes) :
          LET a == [changes |-> changes, first |-> first]
          IN Return(modify(Frame(conn, env), a), "modify", a)
    /\ UNCHANGED pc

ModifyDn ==
    /\ Ready /\ IdFree
    /\ \E dn \in Dns, relative_dn \in RelativeDns, new_superior \in Superiors,
          env \in Envs(conn, "modify_dn") :
          LET a == [dn |-> dn, relative_dn |-> relative_dn, new_superior |-> new_superior]
          IN Return(modify_dn(Frame(conn, env), a), "modify_dn", a)
    /\ UNCHANGED pc

Abandon ==
    /\ Ready /\ IdFree
    /\ \E message_id \in 1..MaxMsgId, env \in Envs(conn, "abandon") :
          LET a == [message_id |-> message_id]
          IN Return(abandon(Frame(conn, env), a), "abandon", a)
    /\ UNCHANGED pc

Extended ==
    /\ Ready /\ IdFree
    /\ \E env \in Envs(conn, "extended") :
          Return(extended(Frame(conn, env), NoArgs), "extended", NoArgs)
    /\ UNCHANGED pc

\* reading the entries property, by the caller himself or by another thread. The
\* property holds no lock (lines 860-865): the thread tests self.response and
\* self._entries and reads self.response (lines 862-864) ...
EntriesRead ==
    /\ pc = "ready" /\ ~reader.reading
    /\ entries_missing(conn)
    /\ reader' = [reading |-> TRUE, response |-> conn.response]
    /\ UNCHANGED <<conn, call, pc, faults, calls, lock, threads>>

\* ... and, once _get_entries (which takes the lock, line 868) returned, stores the
\* entries built from the response it read (line 864)
EntriesStore ==
    /\ pc = "ready" /\ reader.reading
    /\ conn' = IF unmatched(reader.response.list) THEN conn
               ELSE [conn EXCEPT !.entries = _get_entries(reader.response)]
    /\ call' = [NoCall EXCEPT !.op = "entries", !.pre = conn,
                              !.args = [search_response |-> reader.response],
                              !.exc = IF unmatched(reader.response.list)
                                      THEN "LDAPObjectError" ELSE NoExc,
                              !.outstanding = conn.outstanding,
                              !.after_bind = (call.op = "bind")]
    /\ reader' = NoReader
    /\ UNCHANGED <<pc, faults, calls, lock, threads>>

\* the caller searches with attributes and controls: values made for this call, or the
\* objects given to the search before, as that search left them; lines 508-524 change
\* them once the deferred resolution of line 507 returned
SearchWith ==
    /\ Ready /\ IdFree
    /\ \E attributes \in Given("attributes", {Py("None", <<>>), Py("str", <<ALL_ATTRIBUTES>>),
                                                 Py("list", <<"cn">>), Py("tuple", <<"cn">>)}),
          controls \in Given("controls", {Py("None", <<>>), Py("list", <<>>)}),
          get_operational_attributes \in BOOLEAN, paged \in BOOLEAN,
          env \in {e \in Envs(conn, "search") : e.hits = <<>> /\ e.opCode = RESULT_SUCCESS} :
       \E a \in {[attributes |-> attributes, controls |-> controls,
                   get_operational_attributes |-> get_operational_attributes,
                   paged |-> paged]} :
       \E t \in {search_request(Frame(conn, env), search_arguments(a).request)} :
          Return(t, "search",
                 [caller |-> IF t.reached THEN search_arguments(a).caller
                             ELSE [attributes |-> attributes, controls |-> controls]] @@ a)
    /\ UNCHANGED pc

\* the caller refreshes the server info; the server answers the search of
\* get_info_from_server as it answers any search
RefreshServerInfo ==
    /\ Ready /\ IdFree
    /\ \E env \in Envs(conn, "search") :
          Return(refresh_server_info(Frame(conn, env)), "refresh_server_info", NoArgs)
    /\ UNCHANGED pc

\* "with connection:" is reached: __enter__ is called
Enter ==
    /\ pc = "ready" /\ lock.owner = NoThread /\ IdFree
    /\ Len(conn.context_state) < MaxDepth
    /\ \E env \in Envs(conn, "__enter__") :
          Returned(__enter__(Frame(conn, env)), "__enter__", NoArgs)
    /\ UNCHANGED <<pc, calls>>

\* the body of the innermost with statement is left, by its end or by an exception
\* (among them the one a nested __enter__ raised): __exit__ is called
Exit ==
    /\ pc = "ready" /\ lock.owner = NoThread /\ IdFree
    /\ \E m \in DOMAIN conn.context_state : conn.context_state[m].entered
    /\ \E raised \in BOOLEAN, env \in Envs(conn, "__exit__") :
          Returned(__exit__(Frame(conn, env), raised), "__exit__", [raised |-> raised])
    /\ UNCHANGED <<pc, calls>>

\* reading the usage property (lines 323-335), which holds no lock. Lines 328-331: no
\* usage is collected and None is returned, or the strategy is not pooled and the
\* counters are returned (line 335), or the counters are reset and the thread goes
\* on to the first connection of the pool
UsageRead ==
    /\ pc = "ready"
    /\ \E th \in Threads :
          /\ threads[th] = Idle
          /\ IF conn.usage # NoUsage /\ StrategyPooled(conn.strategy_type)
             THEN /\ conn' = [conn EXCEPT !.usage = ConnectionUsage]
                  /\ threads' = [threads EXCEPT ![th] = InUsage(1)]
                  /\ UNCHANGED call
             ELSE /\ call' = [NoCall EXCEPT !.op = "usage", !.pre = conn,
                                           !.args = [thread |-> th],
                                           !.ret = IF conn.usage = NoUsage THEN RetNone
                                                   ELSE RetInt(conn.usage)]
                  /\ UNCHANGED <<conn, threads>>
    /\ UNCHANGED <<pc, faults, calls, reader, lock>>

\* lines 332-334: the thread adds the counters of the next connection of the pool
\* and, after the last one, those of the connections that were terminated
UsageAdd ==
    /\ \E th \in Threads :
          /\ InsideUsage(th) /\ threads[th].next <= Len(conn.pool.connections) + 1
          /\ conn' = [conn EXCEPT !.usage =
                         @ + IF threads[th].next <= Len(conn.pool.connections)
                             THEN conn.pool.connections[threads[th].next]
                             ELSE conn.pool.terminated_usage]
          /\ threads' = [threads EXCEPT ![th].next = @ + 1]
    /\ UNCHANGED <<call, pc, faults, calls, reader, lock>>

\* line 335: the thread returns the counters as they are now
UsageReturn ==
    /\ \E th \in Threads :
          /\ InsideUsage(th) /\ threads[th].next = Len(conn.pool.connections) + 2
          /\ call' = [NoCall EXCEPT !.op = "usage", !.pre = conn,
                                    !.args = [thread |-> th],
                                    !.ret = RetInt(conn.usage)]
          /\ threads' = [threads EXCEPT ![th] = Idle]
    /\ UNCHANGED <<conn, pc, faults, calls, reader, lock>>

\* the caller collects the response of an outstanding request (asynchronous strategies)
GetResponse ==
    /\ Ready
    /\ \E id \in DOMAIN conn.outstanding :
          /\ conn.outstanding[id] # "abandonRequest"
          /\ conn' = [conn EXCEPT !.outstanding = Without(@, id)]
          /\ call' = [NoCall EXCEPT !.op = "get_response", !.args = [message_id |-> id],
                                    !.pre = conn, !.outstanding = conn.outstanding,
                                    !.after_bind = (call.op = "bind")]
    /\ calls' = calls + 1
    /\ UNCHANGED <<pc, faults, reader, lock, threads>>

-----------------------------------------------------------------------------
(* The lock: the threads step by step through the "with self.lock" blocks *)

\* RLock.acquire() by thread th returns at once: the lock is free or th owns it
acquirable_when_free(l, th) == l.owner = NoThread

acquirable(l, th) == l.owner \in {NoThread, th}

acquire(l, th) == [owner |-> th, count |-> l.count + 1]

release(l) == IF l.count = 1 THEN RLock ELSE [l EXCEPT !.count = @ - 1]

\* the methods a caller may call whose body is "with self.lock"
LockedMethods ==
    {"bind", "unbind", "search", "compare", "add", "delete", "modify", "modify_dn",
     "abandon", "extended", "start_tls", "do_sasl_bind", "refresh_server_info"}

Top(stack) == stack[Len(stack)]

\* the methods of the Connection the innermost method calls while it holds the lock
Callees(c, stack) ==
    CASE Top(stack) \in {"search", "compare", "add", "delete", "modify", "modify_dn",
                         "abandon", "extended"} -> {"_fire_deferred"}
      [] Top(stack) = "_fire_deferred" ->
            IF c.lazy /\ \A i \in 1..(Len(stack) - 1) : stack[i] # "_fire_deferred"
            THEN {"start_tls", "bind", "refresh_server_info"} ELSE {}
      [] Top(stack) = "bind" ->
            (IF c.authentication = "SASL" THEN {"do_sasl_bind"} ELSE {})
            \cup {"refresh_server_info"}
      [] Top(stack) = "start_tls" -> {"refresh_server_info"}
      [] Top(stack) = "refresh_server_info" -> {"search"}
      [] OTHER -> {}

\* a thread calls a method and reaches its "with self.lock"
CallMethod ==
    /\ pc = "ready"
    /\ \E th \in Threads :
          /\ threads[th].waiting = "None"
          /\ \E m \in IF threads[th].stack = <<>> THEN LockedMethods
                       ELSE Callees(conn, threads[th].stack) :
                threads' = [threads EXCEPT ![th].waiting = m]
    /\ UNCHANGED <<conn, call, pc, faults, calls, reader, lock>>

\* "with self.lock": the thread enters the body once acquire() returned
AcquireLock ==
    /\ \E th \in Threads :
          /\ threads[th].waiting # "None"
          /\ acquirable(lock, th)
          /\ lock' = acquire(lock, th)
          /\ threads' = [threads EXCEPT ![th] = [stack |-> Append(@.stack, @.waiting),
                                                 waiting |-> "None"]]
    /\ UNCHANGED <<conn, call, pc, faults, calls, reader>>

\* the body is left, by a return or an exception: the lock is released once
ReleaseLock ==
    /\ \E th \in Threads :
          /\ threads[th].waiting = "None" /\ threads[th].stack # <<>>
          /\ lock' = release(lock)
          /\ threads' = [threads EXCEPT ![th].stack = SubSeq(@, 1, Len(@) - 1)]
    /\ UNCHANGED <<conn, call, pc, faults, calls, reader>>

Next ==
    \/ Construct
    \/ Open \/ StartTls \/ Bind \/ Unbind
    \/ Search \/ Compare \/ Add \/ Delete \/ Modify \/ ModifyDn \/ Abandon \/ Extended
    \/ EntriesRead \/ EntriesStore
    \/ UsageRead \/ UsageAdd \/ UsageReturn
    \/ Enter \/ Exit
    \/ RefreshServerInfo
    \/ SearchWith
    \/ GetResponse
    \/ CallMethod \/ AcquireLock \/ ReleaseLock

Spec == Init /\ [][Next]_vars

\* the life cycle: every strategy, lazy or not
InitLife == Constructed(CLIENT_STRATEGIES, AuthSettings, BOOLEAN, {FALSE})
NextLife == Construct \/ Open \/ StartTls \/ Bind \/ Unbind \/ Search
SpecLife == InitLife /\ [][NextLife]_vars

\* the operations that change the directory, on writable and read-only sessions
InitWrite == Constructed({"SYNC", "ASYNC", "LDIF"}, {Simple}, BOOLEAN, BOOLEAN)
NextWrite == Construct \/ Search \/ Compare \/ Add \/ Delete \/ Modify \/ ModifyDn
SpecWrite == InitWrite /\ [][NextWrite]_vars

\* outstanding requests and their abandonment
InitAbandon == Constructed(CLIENT_STRATEGIES, {Simple}, BOOLEAN, {FALSE})
NextAbandon ==
    Construct \/ Bind \/ Search \/ Add \/ Extended \/ Abandon \/ GetResponse
    \/ EntriesRead \/ EntriesStore \/ RefreshServerInfo
SpecAbandon == InitAbandon /\ [][NextAbandon]_vars

\* the threads and the lock
InitLock ==
    Constructed({"SYNC"}, {a \in AuthSettings : "EXTERNAL" \in {a.sasl_mechanism} \/ a = Simple},
                BOOLEAN, {FALSE})
NextLock == Construct \/ CallMethod \/ AcquireLock \/ ReleaseLock
SpecLock == InitLock /\ [][NextLock]_vars

\* the errors the operations detect, with raise_exceptions false and true
\* the entries of a response: a session that was constructed with an automatic bind
\* and has searched
Searched(hits) ==
    search(Frame(auto_bind_steps(Frame(NewConnection("SYNC", Simple, FALSE, FALSE),
                                       DefaultEnv), "AUTO_BIND_NO_TLS").c,
                 [DefaultEnv EXCEPT !.hits = hits]), NoArgs).c

InitEntries ==
    /\ \E hits \in Results : conn = Searched(hits)
    /\ call = NoCall
    /\ pc = "ready"
    /\ faults = 0
    /\ calls = 0
    /\ reader = NoReader
    /\ lock = RLock
    /\ threads = [th \in Threads |-> Idle]

NextEntries == EntriesRead \/ EntriesStore

SpecEntries == InitEntries /\ [][NextEntries]_vars

\* the pools of a pooled strategy: the operations each connection counted, and those
\* of the connections terminated so far
Pools ==
    [connections : UNION {[1..n -> 1..2] : n \in 1..MaxWorkers}, terminated_usage : 0..1]

\* sessions with and without collect_usage; a pooled strategy has its pool
InitUsage ==
    /\ \E k \in {"SYNC", "REUSABLE"}, collect_usage \in BOOLEAN, pool \in Pools :
          conn = [NewConnection(k, Simple, FALSE, FALSE)
                     EXCEPT !.usage = IF collect_usage THEN ConnectionUsage ELSE NoUsage,
                            !.pool = IF StrategyPooled(k) THEN pool ELSE NoPool]
    /\ call = NoCall
    /\ pc = "init"
    /\ faults = 0
    /\ calls = 0
    /\ reader = NoReader
    /\ lock = RLock
    /\ threads = [th \in Threads |-> Idle]

NextUsage == Construct \/ UsageRead \/ UsageAdd \/ UsageReturn

SpecUsage == InitUsage /\ [][NextUsage]_vars

\* what the operations return, behind each kind of strategy
InitReturn == Constructed({"SYNC", "ASYNC", "REUSABLE", "LDIF"}, {Simple}, {FALSE}, {FALSE})

NextReturn ==
    \/ Construct
    \/ Search \/ Compare \/ Add \/ Delete \/ Modify \/ ModifyDn \/ Extended

SpecReturn == InitReturn /\ [][NextReturn]_vars

\* the session as a context manager
InitContext == Constructed({"SYNC", "ASYNC"}, {Simple}, BOOLEAN, {FALSE})

NextContext == Construct \/ Enter \/ Exit

SpecContext == InitContext /\ [][NextContext]_vars

\* searches with attributes and controls
InitSearch == Constructed({"SYNC", "ASYNC"}, {Simple}, BOOLEAN, {FALSE})

NextSearch == Construct \/ SearchWith

SpecSearch == InitSearch /\ [][NextSearch]_vars

InitRaise ==
    ConstructedWith({"SYNC"},
                    {a \in AuthSettings : a = Simple \/ a.sasl_mechanism = "GSSAPI"
                                              \/ (a.authentication = "NTLM" /\ ~a.credentials)},
                    {FALSE}, BOOLEAN, BOOLEAN)
NextRaise == Construct \/ Bind \/ Delete \/ Modify \/ ModifyDn
SpecRaise == InitRaise /\ [][NextRaise]_vars

(***************************************************************************)
(* What a call did, read from its record                                   *)
(***************************************************************************)

\* the positions of the events of a type in a log
Positions(log, type) == {i \in 1..Len(log) : log[i].type = type}

Count(log, type) == Cardinality(Positions(log, type))

\* every event of type first comes before every event of type second
Before(log, first, second) ==
    \A i \in Positions(log, first), j \in Positions(log, second) : i < j

\* what the operation itself put on the wire, after its deferred resolution
OwnWire == IF call.reached THEN SubSeq(call.wire, call.own + 1, Len(call.wire)) ELSE <<>>

\* what the deferred resolution of the call did
ResolutionWire == IF call.reached THEN SubSeq(call.wire, 1, call.own) ELSE call.wire

Raised(err) == call.exc = err

ReturnedTrue == call.exc = NoExc /\ call.ret = RetBool(TRUE)

ReturnedFalse == call.exc = NoExc /\ call.ret = RetBool(FALSE)

(***************************************************************************)
(* C1: after bind() followed by unbind() the session is closed and not     *)
(* bound, on a lazy session as on an eager one.                            *)
(***************************************************************************)
C1_UnbindAfterBind ==
    (call.op = "unbind" /\ call.after_bind) => (conn.closed /\ ~conn.bound)

\* C1 holds whenever unbind() returns: only an unbind() that raises leaves the
\* session open
C1_UnbindAfterBindReturned ==
    (call.op = "unbind" /\ call.after_bind /\ call.exc = NoExc)
        => (conn.closed /\ ~conn.bound)

C1_Witness ==
    /\ call.op = "unbind" /\ call.after_bind /\ call.exc = NoExc
    /\ call.pre.bound /\ conn.closed /\ ~conn.bound

(***************************************************************************)
(* The first search() of a lazy session that has not opened its transport  *)
(***************************************************************************)
FirstLazySearch == call.op = "search" /\ conn.lazy /\ ~call.pre.socket

\* an earlier open(), start_tls() or bind() recorded a deferred intent
Pending(c) == c.deferred_open \/ c.deferred_start_tls \/ c.deferred_bind

\* the search message of the call itself was handed to the transport
SearchSent == call.reached /\ Count(OwnWire, "searchRequest") = 1

\* open, TLS upgrade and bind all happened before the search message of the call
NoneAfterSearch ==
    \A type \in {"open", "tls", "bind"} : Count(OwnWire, type) = 0

C3_LazyRecordsIntent ==
    /\ (conn.lazy /\ call.op = "bind") =>
          /\ call.wire = <<>> /\ conn.socket = call.pre.socket
          /\ conn.deferred_bind /\ conn.bind_controls = call.args.controls
          /\ ReturnedTrue
    /\ (conn.lazy /\ call.op = "start_tls") =>
          /\ call.wire = <<>> /\ conn.socket = call.pre.socket
          /\ conn.deferred_start_tls
          /\ ReturnedTrue
    /\ (conn.lazy /\ call.op = "__init__" /\ call.args.auto_bind = "AUTO_BIND_NONE") =>
          /\ call.wire = <<>> /\ ~conn.socket
          /\ call.exc = NoExc

C3_Witness ==
    /\ conn.lazy /\ call.op = "start_tls" /\ ~call.pre.deferred_start_tls
    /\ call.pre.deferred_bind /\ call.pre.bind_controls = 1
    /\ conn.deferred_start_tls /\ call.wire = <<>> /\ ~conn.socket

(***************************************************************************)
(* C4: on a lazy session every operation other than open, start_tls, bind  *)
(* and unbind runs the deferred resolution exactly once before its own     *)
(* work; what the resolution itself calls (bind, start_tls, the nested     *)
(* search of the server-information refresh) neither defers again nor      *)
(* starts a second resolution.                                             *)
(***************************************************************************)
C4_ResolvedExactlyOnce ==
    /\ ~conn.executing_deferred
    /\ call.op \in FireOps => call.fired = (IF conn.lazy THEN 1 ELSE 0)
    /\ call.op \in LifeCycleOps => call.fired = 0
    /\ (call.op \in FireOps /\ conn.lazy /\ call.reached) => ~Pending(conn)

C4_Witness ==
    /\ call.op = "search" /\ conn.lazy /\ call.fired = 1 /\ call.reached
    /\ call.pre.deferred_bind /\ call.pre.deferred_start_tls
    /\ Count(ResolutionWire, "bind") = 1
    /\ Count(ResolutionWire, "searchRequest") = 1
    /\ Count(OwnWire, "searchRequest") = 1

(***************************************************************************)
(* The operations that change the directory                                *)
(***************************************************************************)
ReadOnlyError == "LDAPConnectionIsReadOnlyError"
ChangesError == "LDAPChangesError"

\* delete, modify or modify_dn refused the call
Rejected ==
    call.op \in {"delete", "modify", "modify_dn"} /\ call.exc \in {ReadOnlyError, ChangesError}

\* the request of the operation itself
OwnRequest ==
    [delete |-> "delRequest", modify |-> "modifyRequest", modify_dn |-> "modDNRequest"]

(***************************************************************************)
(* C5: on a read-only session add, delete, modify and modify_dn each fail  *)
(* with the read-only error whatever their arguments, while search and     *)
(* compare are never refused because of the read-only flag.                *)
(***************************************************************************)
C5_ReadOnlyRejectsWrites ==
    /\ (conn.read_only /\ call.reached
            /\ call.op \in {"add", "delete", "modify", "modify_dn"}) => Raised(ReadOnlyError)
    /\ call.op \in {"search", "compare"} => ~Raised(ReadOnlyError)

(***************************************************************************)
(* C6, as stated: whenever delete, modify or modify_dn is rejected, no     *)
(* message of any kind has been sent and no transport has been opened      *)
(* during the call, a lazy session with a deferred open, TLS upgrade or    *)
(* bind pending included.                                                  *)
(***************************************************************************)
C6_RejectedSendsNothing ==
    Rejected => (call.wire = <<>> /\ conn.socket = call.pre.socket)

(***************************************************************************)
(* C6, amended: whenever delete, modify or modify_dn is rejected, the      *)
(* request of the operation itself has not been sent; on a session that is *)
(* not lazy no message of any kind has been sent and no transport has been *)
(* opened during the call; on a lazy session whatever was opened or sent   *)
(* belongs to the deferred resolution, which runs before the checks.       *)
(***************************************************************************)
C6_RejectedSendsNoRequest ==
    Rejected =>
        /\ call.reached /\ OwnWire = <<>>
        /\ Count(call.wire, OwnRequest[call.op]) = 0
        /\ ~conn.lazy => (call.wire = <<>> /\ conn.socket = call.pre.socket)
        /\ conn.lazy => call.fired = 1

C6_Witness ==
    /\ Rejected /\ conn.lazy /\ call.pre.deferred_bind
    /\ ~call.pre.socket /\ conn.socket
    /\ Count(call.wire, "bindRequest") = 1
    /\ Count(call.wire, OwnRequest[call.op]) = 0

(***************************************************************************)
(* C7: modify() on a writable session sends a modify request if and only   *)
(* if the change set is a mapping, is not empty, maps every attribute to a *)
(* tuple of length 2, and uses only the change types Add, Delete, Replace  *)
(* and Increment; in every other case it raises the changes error and sets *)
(* last_error.                                                             *)
(***************************************************************************)
ValidChanges(changes) ==
    /\ changes.isDict
    /\ changes.items # {}
    /\ \A ch \in changes.items :
          ch.len = 2 /\ ch.op \in {MODIFY_ADD, MODIFY_DELETE, MODIFY_REPLACE, MODIFY_INCREMENT}

C7_ModifySendsIffValid ==
    (call.op = "modify" /\ ~conn.read_only /\ call.reached) =>
        IF ValidChanges(call.args.changes)
        THEN Count(OwnWire, "modifyRequest") = 1 /\ ~Raised(ChangesError)
        ELSE /\ OwnWire = <<>>
             /\ Raised(ChangesError)
             /\ conn.last_error \in {"changes must be a dictionary",
                                      "no changes in modify request",
                                      "malformed change", "unknown change type"}

C7_Witness ==
    /\ call.op = "modify" /\ ~conn.read_only /\ call.reached
    /\ ValidChanges(call.args.changes)
    /\ Count(OwnWire, "modifyRequest") = 1 /\ ReturnedTrue

(***************************************************************************)
(* C8, as stated: modify_dn() with a new superior that is not null, an     *)
(* empty one included, and a distinguished name that does not start with   *)
(* the relative DN fails with the changes error and sends no modify-DN     *)
(* request; with a null new superior or a matching prefix it is not        *)
(* rejected for this reason.  Stated for a writable session.               *)
(***************************************************************************)
DnTransitionRejected ==
    /\ Raised(ChangesError) /\ conn.last_error = "DN cannot change while moving"
    /\ Count(call.wire, "modDNRequest") = 0

C8_NonNullSuperiorRejected ==
    (call.op = "modify_dn" /\ ~conn.read_only /\ call.reached) =>
        (DnTransitionRejected <=>
            (~call.args.new_superior.none
                /\ ~startswith(call.args.dn, call.args.relative_dn)))

(***************************************************************************)
(* C8, amended: modify_dn() on a writable session with a new superior that *)
(* is neither null nor empty and a distinguished name that does not start  *)
(* with the relative DN fails with the changes error and sends no          *)
(* modify-DN request; with a null or empty new superior or a matching      *)
(* prefix it is not rejected for this reason and the request is sent.      *)
(***************************************************************************)
C8_NonEmptySuperiorRejected ==
    (call.op = "modify_dn" /\ ~conn.read_only /\ call.reached) =>
        IF /\ ~call.args.new_superior.none
           /\ call.args.new_superior.dn # <<>>
           /\ ~startswith(call.args.dn, call.args.relative_dn)
        THEN DnTransitionRejected
        ELSE ~Raised(ChangesError) /\ Count(OwnWire, "modDNRequest") = 1

C8_Witness ==
    /\ call.op = "modify_dn" /\ ~conn.read_only /\ call.reached
    /\ call.args.new_superior = [none |-> FALSE, dn |-> <<"c">>]
    /\ call.args.relative_dn = <<"b">>
    /\ DnTransitionRejected

(***************************************************************************)
(* C9: abandon(id) returns false and sends nothing when id is not an       *)
(* outstanding request, or is an outstanding bind, unbind or abandon       *)
(* request; otherwise it sends exactly one abandon request and, the send   *)
(* having gone through, returns true with the last result, the last        *)
(* response and the materialised entries cleared.                          *)
(***************************************************************************)
\* call.outstanding is the table of outstanding requests abandon() looks the id up in
CanBeAbandoned ==
    /\ call.args.message_id \in DOMAIN call.outstanding
    /\ call.outstanding[call.args.message_id]
           \notin {"bindRequest", "unbindRequest", "abandonRequest"}

C10_UnbindNeverRaises ==
    call.op = "unbind" => (ReturnedTrue /\ conn.closed /\ ~conn.socket)

(***************************************************************************)
(* C11: in every reachable state in which no deferred action is pending,   *)
(* bound = true and closed = true do not hold together.                    *)
(***************************************************************************)
C11_BoundImpliesOpen ==
    ~Pending(conn) => ~(conn.bound /\ conn.closed)

\* C11 holds in every state reached without a call raising
C11_BoundImpliesOpenNoRaise ==
    (~Pending(conn) /\ call.exc = NoExc) => ~(conn.bound /\ conn.closed)


(* C12: in every reachable state, a cached entries value that is not None  *)
(* was built from the current last response.                               *)
C12_EntriesNeverStale ==
    ~conn.entries.none => conn.entries.of = conn.response


\* C12 for a single thread: the entries were not stored by a thread that read an
\* older response (the last step is a call, none is inside the property)
C12_EntriesNeverStaleOneThread ==
    (call.op # "entries" /\ ~reader.reading) => C12_EntriesNeverStale


\* the threads that are inside the body of a method of the Connection
Inside == {th \in Threads : threads[th].stack # <<>>}

(* C13: at most one thread at a time is inside the body of a public        *)
(* operation, and a call made from inside a body (the deferred resolution  *)
(* calling bind, bind calling refresh_server_info, ...) takes the lock     *)
(* again without blocking.                                                 *)
C13_LockSerializes ==
    /\ Cardinality(Inside) <= 1
    /\ \A th \in Inside : /\ lock.owner = th
                          /\ lock.count = Len(threads[th].stack)
                          /\ threads[th].waiting # "None" => acquirable(lock, th)
    /\ Inside = {} => lock = RLock

\* a thread is inside bind called by the deferred resolution of an operation and has
\* reached the lock of refresh_server_info, while another thread waits for the lock
C13_Witness ==
    \E th \in Threads, other \in Threads :
        /\ Len(threads[th].stack) = 3
        /\ threads[th].stack[2] = "_fire_deferred" /\ threads[th].stack[3] = "bind"
        /\ threads[th].waiting = "refresh_server_info"
        /\ other # th /\ threads[other].waiting # "None"


\* a bind() that was not deferred returned
BindReturned == call.op = "bind" /\ ~bind_defers(call.pre) /\ call.exc = NoExc

\* a bind() that was not deferred got a result that is not success
BindNotSuccess ==
    /\ call.op = "bind" /\ ~bind_defers(call.pre)
    /\ call.result # NoneResult /\ call.result.result # RESULT_SUCCESS

(* C14: after a bind() that is not deferred returns, bound is true iff the *)
(* result code of the bind is success; with no result, bound is true iff   *)
(* the strategy is the pooled one (REUSABLE); bind() returns bound; a      *)
(* result that is not success does not raise and its description is in     *)
(* last_error.                                                             *)
C14_BoundIffSuccess ==
    /\ BindReturned =>
          /\ conn.bound = IF call.result = NoneResult THEN conn.strategy_type = "REUSABLE"
                          ELSE call.result.result = RESULT_SUCCESS
          /\ call.ret = RetBool(conn.bound)
    /\ BindNotSuccess =>
          /\ call.exc = NoExc
          /\ ~conn.bound
          /\ conn.last_error = call.result.description

\* a bind that got a result that is not success, and a bind that got no result on a
\* strategy other than the pooled one
C14_Witness ==
    /\ BindReturned /\ ~conn.bound
    /\ \/ BindNotSuccess /\ call.pre.last_error # conn.last_error
       \/ call.result = NoneResult /\ conn.strategy_type = "ASYNC"

\* a bind that got no result on the pooled strategy
C14_WitnessPooled ==
    BindReturned /\ conn.bound /\ call.result = NoneResult /\ conn.strategy_type = "REUSABLE"


\* a bind() with the NTLM method that was not deferred
NtlmBind ==
    call.op = "bind" /\ ~bind_defers(call.pre) /\ call.pre.authentication = "NTLM"

\* the bind requests of the call, in the order they were sent
BindRequests ==
    [i \in 1..Count(call.wire, "bindRequest") |->
        call.wire[CHOOSE p \in Positions(call.wire, "bindRequest") :
                     Cardinality({q \in Positions(call.wire, "bindRequest") : q <= p}) = i].req]

\* the reply to the discovery round was inspected and does not offer NTLM
MarkerAbsent == NtlmBind /\ Len(call.rounds) >= 1 /\ ~call.rounds[1].creds

(* C15: in the NTLM bind, when the reply to the discovery round does not   *)
(* offer NTLM, the bind fails with an error, neither the negotiate nor the *)
(* response round is sent and the session is not bound, whatever the       *)
(* result code of the discovery reply.                                     *)
C15_NoMarkerFails ==
    MarkerAbsent => /\ call.exc # NoExc
                    /\ BindRequests = <<"SICILY_PACKAGE_DISCOVERY">>
                    /\ ~conn.bound

\* what the code does when NTLM is not offered: it sends no further round, raises
\* no error of its own (only the refresh of the server info can fail afterwards) and
\* binds the session iff the discovery reply carries success
C15_NoMarkerEndsOnDiscovery ==
    MarkerAbsent => /\ call.exc \in {NoExc, "TransportFailure"}
                    /\ BindRequests = <<"SICILY_PACKAGE_DISCOVERY">>
                    /\ conn.bound = (call.rounds[1].result = RESULT_SUCCESS)
                    /\ call.exc = NoExc => call.ret = RetBool(conn.bound)

C15_Witness == MarkerAbsent /\ conn.bound


NtlmRounds == <<"SICILY_PACKAGE_DISCOVERY", "SICILY_NEGOTIATE_NTLM", "SICILY_RESPONSE_NTLM">>

C16_WitnessBound ==
    NtlmBind /\ BindReturned /\ Len(BindRequests) = 3 /\ conn.bound


\* the call ran bind() itself, or as the deferred bind of its resolution, on a session
\* set up for a SASL mechanism that is not in the allow-list
UnsupportedSaslBind ==
    /\ call.pre.authentication = "SASL"
    /\ call.pre.sasl_mechanism \notin SASL_AVAILABLE_MECHANISMS
    /\ \/ call.op = "bind" /\ ~bind_defers(call.pre)
       \/ call.op = "search" /\ call.pre.lazy /\ call.pre.deferred_bind

(* C17: a SASL bind whose mechanism is not in the allow-list sends no bind *)
(* message and leaves bound as it was; unless the transport could not be   *)
(* opened for it, it raises the unsupported-mechanism error and sets       *)
(* last_error to its description.                                          *)
C17_UnsupportedMechanismFails ==
    UnsupportedSaslBind =>
       /\ Count(call.wire, "bindRequest") = 0
       /\ conn.bound = call.pre.bound
       /\ call.exc \in {"LDAPSASLMechanismNotSupportedError", "TransportFailure"}
       /\ call.exc = "TransportFailure" => Count(call.wire, "bind") = 0
       /\ call.exc = "LDAPSASLMechanismNotSupportedError" =>
             conn.last_error = "requested SASL mechanism not supported"

\* the error was raised by bind() on a session that had another error recorded
C17_Witness ==
    /\ UnsupportedSaslBind /\ call.op = "bind"
    /\ call.exc = "LDAPSASLMechanismNotSupportedError"
    /\ call.pre.last_error # conn.last_error
    /\ call.wire # <<>>


\* the errors the Connection raises itself, each with the descriptions it gives
ErrorDescriptions ==
    [LDAPUnknownAuthenticationMethodError |->
         {"unknown authentication method", "NTLM needs domain\\username and a password"},
     LDAPSASLMechanismNotSupportedError |-> {"requested SASL mechanism not supported"},
     LDAPBindError |-> {"automatic bind not successful",
                        "automatic bind not successful - error"},
     LDAPConnectionIsReadOnlyError |-> {"connection is read-only"},
     LDAPChangesError |-> {"changes must be a dictionary", "no changes in modify request",
                           "malformed change", "unknown change type",
                           "DN cannot change while moving"},
     LDAPObjectClassError |-> {"ObjectClass attribute is mandatory"},
     LDAPPackageUnavailableError |-> {"package ntlm not present",
                                      "package ntlm3 not present"}]

(* C18: when a call raised one of the errors of the Connection, last_error *)
(* holds a description of that error.                                      *)
C18_ErrorsSetLastError ==
    call.exc \in DOMAIN ErrorDescriptions => conn.last_error \in ErrorDescriptions[call.exc]

\* C18 for every error but the missing NTLM package
C18_ErrorsButMissingPackageSetLastError ==
    (call.exc \in DOMAIN ErrorDescriptions /\ call.exc # "LDAPPackageUnavailableError")
        => conn.last_error \in ErrorDescriptions[call.exc]

\* the missing package is raised with last_error left as it was
C18_MissingPackageKeepsLastError ==
    call.exc = "LDAPPackageUnavailableError" /\ call.op = "bind"
        => conn.last_error = call.pre.last_error


\* the errors an operation detects itself, before it sends its request
DetectedErrors ==
    {"LDAPConnectionIsReadOnlyError", "LDAPChangesError",
     "LDAPSASLMechanismNotSupportedError", "LDAPUnknownAuthenticationMethodError"}

(* C19: on a session with raise_exceptions = false, an operation that      *)
(* detects an error (read-only session, malformed changes, DN changed by a *)
(* move, SASL mechanism not supported, unknown authentication method) does *)
(* not raise it.                                                          *)
C19_NoRaiseWhenDisabled ==
    (call.op \in {"bind", "delete", "modify", "modify_dn"} /\ ~call.pre.raise_exceptions)
        => call.exc \notin DetectedErrors

\* what the code does: a delete on a read-only session raises in both modes, and the
\* description is in last_error
C19_ReadOnlyDeleteRaisesInBothModes ==
    (call.op = "delete" /\ call.pre.read_only)
        => /\ call.exc = "LDAPConnectionIsReadOnlyError"
           /\ conn.last_error = "connection is read-only"

C19_Witness ==
    /\ call.op = "delete" /\ call.pre.read_only /\ ~call.pre.raise_exceptions
    /\ call.exc = "LDAPConnectionIsReadOnlyError"


\* the call started the deferred resolution of a lazy session
Resolved == call.op \in FireOps /\ call.pre.lazy /\ call.fired = 1

\* the deferred bind ran and failed: it raised an error of its own, or its result is
\* not success
DeferredBindFailed ==
    /\ call.pre.deferred_bind /\ Count(ResolutionWire, "bind") = 1
    /\ \/ call.result # NoneResult /\ call.result.result # RESULT_SUCCESS
       \/ call.exc \in {"LDAPSASLMechanismNotSupportedError",
                        "LDAPUnknownAuthenticationMethodError",
                        "LDAPPackageUnavailableError"}

\* a step of the resolution failed: the open, the TLS upgrade or the bind
ResolutionStepFailed ==
    Resolved /\ (call.fault \in {"open", "tls"} \/ DeferredBindFailed)

\* the transport the resolution opened is still open
ProgressKept ==
    (Count(call.wire, "open") = 1 /\ call.fault # "open") => (conn.socket /\ ~conn.closed)

(* C20: when a step of the deferred resolution (open, TLS upgrade, bind)   *)
(* fails, the operation that started the resolution raises, sends nothing  *)
(* of its own, and the transport opened so far stays open.                 *)
C20_ResolutionFailurePropagates ==
    ResolutionStepFailed => /\ call.exc # NoExc
                            /\ ~call.reached /\ OwnWire = <<>>
                            /\ ProgressKept

\* what the code does: a resolution that raises keeps the operation from sending and
\* keeps the open transport, but a TLS upgrade that fails raises nothing: the deferred
\* bind is run after it all the same
C20_RaisedFailurePropagates ==
    Resolved =>
       /\ (call.fault = "open" \/ (DeferredBindFailed /\ call.result = NoneResult))
             => (call.exc # NoExc /\ ~call.reached /\ OwnWire = <<>>)
       /\ ProgressKept
       /\ call.fault = "tls" =>
             Count(ResolutionWire, "bind") = IF call.pre.deferred_bind THEN 1 ELSE 0

\* the deferred bind was refused and the search was sent all the same
C20_Witness ==
    /\ Resolved /\ DeferredBindFailed /\ call.exc = NoExc
    /\ Count(OwnWire, "searchRequest") = 1 /\ ~conn.bound


\* a start_tls() that was not deferred
StartTlsDirect == call.op = "start_tls" /\ ~start_tls_defers(call.pre)

\* the searches the metadata refresh of the call sent
Refreshes == Count(call.wire, "searchRequest")

(* C21: a start_tls() that is not deferred asks the TLS collaborator once. *)
(* On a synchronous strategy it returns True iff the collaborator          *)
(* succeeded, and refreshes the server info (once, on an open session with *)
(* a real endpoint) iff it succeeded and read_server_info was asked; when  *)
(* the collaborator failed it returns False.  On the other strategies it   *)
(* returns True whatever the collaborator said and refreshes nothing.      *)
C21_StartTlsResult ==
    StartTlsDirect =>
       /\ Count(call.wire, "tls") = 1
       /\ StrategySync(conn.strategy_type) =>
             /\ call.fault = "tls" => (ReturnedFalse /\ Refreshes = 0)
             /\ call.exc = NoExc => call.ret = RetBool(call.fault # "tls")
             /\ call.fault = "none" =>
                   /\ ReturnedTrue
                   /\ Refreshes = IF /\ call.args.read_server_info /\ ~call.pre.closed
                                     /\ ~StrategyNoRealDsa(conn.strategy_type)
                                  THEN 1 ELSE 0
       /\ ~StrategySync(conn.strategy_type) => (ReturnedTrue /\ Refreshes = 0)

\* the upgrade failed on a synchronous strategy
C21_Witness ==
    StartTlsDirect /\ StrategySync(conn.strategy_type) /\ call.fault = "tls" /\ ReturnedFalse

\* the upgrade succeeded and the server info was refreshed
C21_WitnessRefresh ==
    StartTlsDirect /\ StrategySync(conn.strategy_type) /\ ReturnedTrue /\ Refreshes = 1

\* the upgrade failed on an asynchronous strategy
C21_WitnessAsync ==
    StartTlsDirect /\ ~StrategySync(conn.strategy_type) /\ call.fault = "tls" /\ ReturnedTrue


\* the results whose entries were built, and the signature each was read with
EntriesBuilt == call.op = "entries"
ResultsRead == call.args.search_response.list
SignatureOf(r) == conn.entries.signatures[r]

\* the signatures of a response: the attribute sets of its results that no other
\* result's attribute set strictly contains
Signatures(list) ==
    {list[r] : r \in {r \in DOMAIN list :
                         \A q \in DOMAIN list : ~(list[r] \subseteq list[q] /\ list[r] # list[q])}}

C22_WitnessOwnSignature ==
    /\ EntriesBuilt /\ call.exc = NoExc
    /\ ResultsRead = <<{"a", "b"}, {"a"}, {"c"}>>
    /\ SignatureOf(3) = {"c"}


\* a thread got the usage of a pooled session
UsageReturned == call.op = "usage" /\ call.ret.kind = "int" /\ StrategyPooled(conn.strategy_type)

RECURSIVE Sum(_)
Sum(counters) == IF counters = <<>> THEN 0 ELSE Head(counters) + Sum(Tail(counters))

\* what the pool counted: its connections and the terminated ones
PoolTotal == Sum(conn.pool.connections) + conn.pool.terminated_usage

(***************************************************************************)
(* C23: the usage of a pooled session is rolled up under the session lock: *)
(* a thread that reads usage, also while another thread reads it, gets the *)
(* counters of every connection of the pool and of the terminated ones,    *)
(* each counted once.                                                      *)
(***************************************************************************)
C23_UsageRolledUpOnce == UsageReturned => call.ret.n = PoolTotal

\* a thread that reads the usage alone gets every counter once; with another reader
\* a counter is added twice, or is missing
C23_WitnessAlone == UsageReturned /\ call.ret.n = PoolTotal
C23_WitnessDouble == UsageReturned /\ call.ret.n > PoolTotal
C23_WitnessPartial == UsageReturned /\ call.ret.n < PoolTotal


\* an operation that sends one request returned
Operations == {"search", "compare", "add", "delete", "modify", "modify_dn", "extended"}
WriteOperations == {"add", "delete", "modify", "modify_dn"}
OperationReturned == call.op \in Operations /\ call.exc = NoExc

RequestOf(op) ==
    CASE op = "search" -> "searchRequest"
      [] op = "compare" -> "compareRequest"
      [] op = "add" -> "addRequest"
      [] op = "delete" -> "delRequest"
      [] op = "modify" -> "modifyRequest"
      [] op = "modify_dn" -> "modDNRequest"
      [] op = "extended" -> "extendedReq"

\* the strategy handed back the handle of the request: a message id that was free
\* when the operation sent its request, now that of the request
HandedBack(id) ==
    /\ id \in DOMAIN conn.outstanding /\ id \notin DOMAIN call.outstanding
    /\ conn.outstanding[id] = RequestOf(call.op)

\* the last result is the good one for the operation
GoodResult ==
    CASE call.op = "search" ->
            conn.result.type = "searchResDone" /\ Len(conn.response.list) > 0
      [] call.op = "compare" ->
            conn.result.type = "compareResponse" /\ conn.result.result = RESULT_COMPARE_TRUE
      [] OTHER ->
            /\ conn.result.type = RespType(RequestOf(call.op))
            /\ conn.result.result = RESULT_SUCCESS

ReturnedHandle == call.ret.kind = "int" /\ HandedBack(call.ret.n)
ReturnedOutcome == call.ret = RetBool(GoodResult)

(***************************************************************************)
(* C24: search, compare, add, delete, modify, modify_dn and extended       *)
(* return the handle of their request unchanged when the strategy hands    *)
(* one back (asynchronous, pooled); add, delete, modify and modify_dn      *)
(* return the text the offline producer hands back; otherwise they return  *)
(* a boolean, true exactly when the last result has the response type of   *)
(* the operation and the success code (compare: the compare-true code;     *)
(* search: the search-done type and a response that is not empty).         *)
(***************************************************************************)
C24_HandleTextOrOutcome ==
    OperationReturned =>
       IF ~StrategySync(conn.strategy_type) THEN ReturnedHandle
       ELSE IF conn.strategy_type = "LDIF" /\ call.op \in WriteOperations
       THEN call.ret.kind = "str"
       ELSE ReturnedOutcome

\* C24 as stated: a handle behind an asynchronous or pooled strategy, else a boolean
C24_HandleOrOutcome ==
    OperationReturned =>
       IF ~StrategySync(conn.strategy_type) THEN ReturnedHandle ELSE ReturnedOutcome

C24_Witness ==
    /\ OperationReturned /\ call.op = "add" /\ conn.strategy_type = "SYNC"
    /\ conn.result.type = "addResponse" /\ conn.result.result # RESULT_SUCCESS
    /\ ReturnedFalse

C24_WitnessHandle ==
    OperationReturned /\ call.op = "extended" /\ StrategyPooled(conn.strategy_type) /\ ReturnedHandle

C24_WitnessSearch ==
    /\ OperationReturned /\ call.op = "search" /\ conn.strategy_type = "SYNC"
    /\ conn.result.result # RESULT_SUCCESS /\ ReturnedTrue

C24_WitnessCompare ==
    OperationReturned /\ call.op = "compare" /\ conn.strategy_type = "SYNC" /\ ReturnedTrue

C24_WitnessText ==
    OperationReturned /\ call.op = "modify" /\ conn.strategy_type = "LDIF" /\ call.ret.kind = "str"


\* the constructor ran, with an automatic bind or without
Constructing == call.op = "__init__"
AutoBinding ==
    /\ Constructing /\ call.args.auto_bind # "AUTO_BIND_NONE"
    /\ ~StrategyNoRealDsa(conn.strategy_type)

\* the lifecycle steps a call performed, in their order
Steps ==
    [i \in DOMAIN SelectSeq(call.wire, LAMBDA e : e.type \in {"open", "tls", "bind"}) |->
        SelectSeq(call.wire, LAMBDA e : e.type \in {"open", "tls", "bind"})[i].type]

\* the steps of the automatic bind modes (lines 253-261)
StepsOf(auto_bind) ==
    CASE auto_bind = "AUTO_BIND_NO_TLS" -> <<"open", "bind">>
      [] auto_bind = "AUTO_BIND_TLS_BEFORE_BIND" -> <<"open", "tls", "bind">>
      [] auto_bind = "AUTO_BIND_TLS_AFTER_BIND" -> <<"open", "bind", "tls">>
      [] OTHER -> <<>>

IsPrefix(s, full) == Len(s) <= Len(full) /\ s = SubSeq(full, 1, Len(s))

\* the steps a lazy session keeps for later
Intents(c) ==
    (IF c.deferred_open THEN {"open"} ELSE {})
    \cup (IF c.deferred_start_tls THEN {"tls"} ELSE {})
    \cup (IF c.deferred_bind THEN {"bind"} ELSE {})

Range(s) == {s[i] : i \in DOMAIN s}

(***************************************************************************)
(* C25: the constructor with an automatic bind, on a strategy with a real  *)
(* endpoint, performs the steps of the mode in their order (no TLS: open,  *)
(* bind; TLS before bind: open, TLS upgrade, bind; TLS after bind: open,   *)
(* bind, TLS upgrade) and ends bound, or raises the bind error when all    *)
(* the steps ran and the session is not bound, or raises the error of the  *)
(* step that failed, having performed the steps up to that one. A lazy     *)
(* session records the steps and performs none. Without automatic bind, or *)
(* on a strategy with no real endpoint, the constructor performs no step.  *)
(***************************************************************************)
C25_AutoBindInOrder ==
    Constructing =>
       IF ~AutoBinding
       THEN Steps = <<>> /\ conn = call.pre /\ call.exc = NoExc
       ELSE IF conn.lazy
       THEN /\ Steps = <<>> /\ call.exc = NoExc /\ conn.bound
            /\ Intents(conn) = Range(StepsOf(call.args.auto_bind))
       ELSE /\ IsPrefix(Steps, StepsOf(call.args.auto_bind))
            /\ call.exc = NoExc => (Steps = StepsOf(call.args.auto_bind) /\ conn.bound)
            /\ Raised("LDAPBindError")
                  => (Steps = StepsOf(call.args.auto_bind) /\ ~conn.bound)

\* C25 as stated: the constructor ends bound or raises the bind error
C25_BoundOrBindError ==
    AutoBinding => ((call.exc = NoExc /\ conn.bound) \/ Raised("LDAPBindError"))

C25_Witness ==
    /\ AutoBinding /\ ~conn.lazy /\ call.args.auto_bind = "AUTO_BIND_TLS_AFTER_BIND"
    /\ Steps = <<"open", "bind", "tls">> /\ call.exc = NoExc /\ conn.bound

C25_WitnessBindError ==
    /\ AutoBinding /\ ~conn.lazy /\ call.args.auto_bind = "AUTO_BIND_TLS_BEFORE_BIND"
    /\ Steps = <<"open", "tls", "bind">> /\ Raised("LDAPBindError") /\ ~conn.bound

C25_WitnessNone ==
    Constructing /\ call.args.auto_bind # "AUTO_BIND_NONE" /\ ~AutoBinding /\ Steps = <<>>

C25_WitnessOpenFails ==
    AutoBinding /\ Steps = <<"open">> /\ Raised("TransportFailure")


\* __exit__ was called, and the status saved when its with statement was entered
Exited == call.op = "__exit__"
AtEntry == call.pre.context_state[Innermost(call.pre.context_state)]
Restored == conn.bound = AtEntry.bound /\ conn.closed = AtEntry.closed
Nested == Len(call.pre.context_state) > 1

(***************************************************************************)
(* C26: the context manager restores the status the session had before     *)
(* entering: after the matching exit, bound and closed have the values     *)
(* they had at entry, whatever the open and the bind of the entry did,     *)
(* also in nested contexts.                                                *)
(***************************************************************************)
C26_StatusRestored == Exited => Restored

\* the status is restored when the exit pops the status of its own entry, the session
\* is bound as the entry left it, and nothing fails during the exit
C26_RestoredAfterBoundEntry ==
    (/\ Exited /\ call.exc = NoExc /\ call.fault = "none"
     /\ Innermost(call.pre.context_state) = Len(call.pre.context_state)
     /\ call.pre.bound)
        => Restored

C26_Witness == Exited /\ Restored /\ ~AtEntry.bound /\ AtEntry.closed /\ call.pre.bound
C26_WitnessNested == Exited /\ Restored /\ Nested /\ ~AtEntry.bound /\ call.pre.bound
C26_WitnessLeftOpen ==
    /\ Exited /\ call.fault = "none" /\ ~Nested
    /\ AtEntry.closed /\ ~conn.closed


\* the caller refreshed the server info of a session that is not pooled
Refreshed == call.op = "refresh_server_info" /\ ~StrategyPooled(conn.strategy_type)

ViewKept ==
    /\ conn.response = call.pre.response
    /\ conn.result = call.pre.result
    /\ conn.entries = call.pre.entries

(***************************************************************************)
(* C27: a refresh of the server info on a session that is not pooled       *)
(* leaves the last response, the last result and the cached entries as     *)
(* they were, although it searches on the same session; on a closed        *)
(* session it does nothing.                                                *)
(***************************************************************************)
C27_RefreshKeepsView ==
    Refreshed =>
       /\ ViewKept
       /\ call.pre.closed => (conn = call.pre /\ call.wire = <<>> /\ call.exc = NoExc)

C27_Witness ==
    /\ Refreshed /\ call.exc = NoExc /\ Refreshes = 1
    /\ Truthy(call.pre.response) /\ ~call.pre.entries.none /\ ViewKept

C27_WitnessResolves ==
    Refreshed /\ call.exc = NoExc /\ call.fired = 1 /\ Count(call.wire, "bind") = 1 /\ ViewKept

C27_WitnessClosed == Refreshed /\ call.pre.closed /\ conn = call.pre


\* C27 holds for a refresh that returns, and for one that raises on a session with
\* nothing deferred: what is left changed is what the deferred resolution of the
\* refresh's own search stored before the refresh raised
C27_ReturnedRefreshKeepsView ==
    (Refreshed /\ (call.exc = NoExc \/ call.fired = 0)) =>
       /\ ViewKept
       /\ call.pre.closed => (conn = call.pre /\ call.wire = <<>> /\ call.exc = NoExc)

C27_WitnessRaised ==
    Refreshed /\ call.exc = "TransportFailure" /\ call.fired = 1 /\ ~ViewKept


\* bind() on a session that authenticates with SASL
SaslBind == call.op = "bind" /\ conn.authentication = "SASL" /\ ~bind_defers(call.pre)

(***************************************************************************)
(* C28: sasl_in_progress is true only while a SASL negotiation executes:   *)
(* once a call has finished, by a return or by the negotiator raising, the *)
(* flag is false, so that a later bind() negotiates again.                 *)
(***************************************************************************)
C28_SaslFlagCleared == ~conn.sasl_in_progress

\* the flag is cleared by every bind() that returns
C28_SaslFlagClearedOnReturn ==
    (SaslBind /\ call.exc = NoExc /\ ~call.pre.sasl_in_progress) => ~conn.sasl_in_progress

\* a negotiation that raised leaves the flag set ...
C28_WitnessLeftSet ==
    /\ SaslBind /\ call.exc = "TransportFailure"
    /\ ~call.pre.sasl_in_progress /\ conn.sasl_in_progress

\* ... and the next bind() sends nothing
C28_WitnessSkipped ==
    /\ SaslBind /\ call.pre.sasl_in_progress /\ call.exc = NoExc
    /\ conn.sasl_mechanism \in SASL_AVAILABLE_MECHANISMS
    /\ Count(call.wire, "bindRequest") = 0


\* an operation on a lazy session, and an earlier resolution that failed to open
Operated == call.op \in FireOps /\ call.pre.lazy
OpenFailedBefore == call.pre.last_error = "socket connection error"

(***************************************************************************)
(* C29: the executing-deferred flag is false whenever no public operation  *)
(* is in progress: every exit from the deferred resolution resets it, so   *)
(* every operation of a lazy session, also the one that follows a failed   *)
(* resolution, starts the resolution and performs the deferred steps that  *)
(* are still pending.                                                      *)
(***************************************************************************)
C29_ExecutingDeferredReset ==
    /\ ~conn.executing_deferred
    /\ Operated =>
          /\ call.fired = 1
          /\ (call.pre.deferred_open /\ ~call.pre.socket) =>
                (call.wire # <<>> /\ call.wire[1].type = "open")
          /\ (call.pre.deferred_start_tls /\ call.fault # "open") =>
                Count(ResolutionWire, "tls") = 1
          /\ (call.pre.deferred_bind /\ call.fault # "open") =>
                Count(ResolutionWire, "bind") = 1

C29_Witness ==
    /\ Operated /\ OpenFailedBefore /\ call.pre.deferred_open /\ call.pre.deferred_bind
    /\ call.fired = 1 /\ call.exc = NoExc
    /\ Count(ResolutionWire, "open") = 1 /\ Count(ResolutionWire, "bind") = 1

C29_WitnessFailed ==
    /\ Operated /\ call.fault = "open" /\ call.exc = "TransportFailure"
    /\ ~conn.executing_deferred /\ conn.deferred_open


\* unbind() returned on a lazy session
LazyUnbound == call.op = "unbind" /\ conn.lazy /\ call.exc = NoExc

(***************************************************************************)
(* C30: after unbind() returns on a lazy session no deferred intent is     *)
(* pending: the deferred open, TLS upgrade and bind flags are all false,   *)
(* whatever lazy open(), start_tls() and bind() were called before.        *)
(***************************************************************************)
C30_UnbindClearsIntents == LazyUnbound => ~Pending(conn)

\* the intents are cleared when an open or a bind is among them, and the session is
\* closed
C30_ClearedWithOpenOrBind ==
    (LazyUnbound /\ (call.pre.deferred_open \/ call.pre.deferred_bind))
        => (~Pending(conn) /\ conn.closed /\ call.wire = <<>>)

C30_WitnessCleared ==
    /\ LazyUnbound /\ call.pre.deferred_open /\ call.pre.deferred_start_tls
    /\ call.pre.deferred_bind /\ ~Pending(conn)

\* a TLS upgrade deferred alone outlives the unbind
C30_WitnessTlsPending ==
    /\ LazyUnbound /\ call.pre.deferred_start_tls
    /\ ~call.pre.deferred_open /\ ~call.pre.deferred_bind
    /\ conn.deferred_start_tls /\ conn.tls_started


(***************************************************************************)
(* C31: search() leaves the attributes and controls of the caller as they  *)
(* were, so that a list given to one search after another makes every      *)
(* request carry one paged-results control and one operational-attributes  *)
(* marker, never a growing number of them.                                 *)
(***************************************************************************)

\* search() reached its own part with the arguments of the caller
SearchedOwn == call.op = "search" /\ "caller" \in DOMAIN call.args /\ call.reached

\* how often an item is in a sequence
Times(items, item) == Cardinality({i \in 1..Len(items) : items[i] = item})

\* the search requests of the own part of the call, with its attributes and controls
SearchRequests == {OwnWire[i].req : i \in Positions(OwnWire, "searchRequest")}

C31_SearchKeepsArguments ==
    SearchedOwn =>
        /\ call.args.caller.attributes = call.args.attributes
        /\ call.args.caller.controls = call.args.controls
        /\ \A request \in SearchRequests :
              /\ Times(request.controls, PAGED_RESULTS) <= 1
              /\ Times(request.attributes, ALL_OPERATIONAL_ATTRIBUTES) <= 1

\* what holds all the same: None and a tuple are never changed, a list only by the
\* one item appended for the paged size or the operational attributes
C31_OnlyListsGrow ==
    SearchedOwn =>
        /\ (call.args.attributes.kind # "list"
               => call.args.caller.attributes = call.args.attributes)
        /\ (call.args.controls.kind # "list"
               => call.args.caller.controls = call.args.controls)
        /\ (~call.args.paged => call.args.caller.controls = call.args.controls)
        /\ (~call.args.get_operational_attributes
               => call.args.caller.attributes = call.args.attributes)

\* a list of controls given with a paged size came back one control longer
C31_WitnessControlsGrown ==
    /\ SearchedOwn /\ call.exc = NoExc /\ call.args.paged
    /\ call.args.controls = Py("list", <<>>)
    /\ call.args.caller.controls = Py("list", <<PAGED_RESULTS>>)

\* the same list given to a second search: the request carries the control twice
C31_WitnessControlsTwice ==
    /\ SearchedOwn /\ call.exc = NoExc /\ call.args.paged
    /\ call.args.controls = Py("list", <<PAGED_RESULTS>>)
    /\ \E request \in SearchRequests :
          request.controls = <<PAGED_RESULTS, PAGED_RESULTS>>

\* the same attributes given to a second search: the request carries the marker twice
C31_WitnessMarkerTwice ==
    /\ SearchedOwn /\ call.exc = NoExc /\ call.args.get_operational_attributes
    /\ \E request \in SearchRequests :
          request.attributes
              = <<"cn", ALL_OPERATIONAL_ATTRIBUTES, ALL_OPERATIONAL_ATTRIBUTES>>

\* a tuple of attributes and no controls: nothing of the caller changed
C31_WitnessTupleKept ==
    /\ SearchedOwn /\ call.exc = NoExc /\ call.args.get_operational_attributes
    /\ call.args.paged
    /\ call.args.attributes = Py("tuple", <<"cn">>) /\ call.args.controls = Py("None", <<>>)
    /\ call.args.caller.attributes = call.args.attributes
    /\ call.args.caller.controls = Py("None", <<>>)


(***************************************************************************)
(* C32: in every reachable state, bound = true with no deferred bind       *)
(* pending means that a bind request got a success result (or, with the    *)
(* pooled strategy, was dispatched) on the transport opened since the last *)
(* close: the bound = true a lazy bind sets ahead of the bind does not     *)
(* outlive the deferred bind flag without such a bind.                     *)
(***************************************************************************)
C32_BoundMeansBindSucceeded ==
    (conn.bound /\ ~conn.deferred_bind) => conn.authenticated

\* C32 holds when the call that cleared the deferred bind returned without raising
C32_ResolvedMeansBindSucceeded ==
    (conn.bound /\ ~conn.deferred_bind /\ call.pre.deferred_bind /\ call.exc = NoExc)
        => conn.authenticated

\* C32 holds on every session that is not lazy: bound is set by the outcome of a bind
\* request alone
C32_BoundMeansBindSucceededNotLazy ==
    (conn.bound /\ ~conn.lazy) => conn.authenticated

\* the deferred bind was resolved by a bind request that succeeded
C32_WitnessResolved ==
    /\ call.op = "search" /\ call.pre.deferred_bind /\ call.pre.bound
    /\ ~call.pre.authenticated /\ call.exc = NoExc
    /\ conn.bound /\ ~conn.deferred_bind /\ conn.authenticated

\* the resolution cleared the deferred bind and raised before any bind request was
\* answered: the session stays bound
C32_WitnessOptimisticSurvives ==
    /\ call.op = "search" /\ call.pre.deferred_bind /\ call.exc # NoExc
    /\ Count(call.wire, "bindRequest") = 0
    /\ conn.bound /\ ~conn.deferred_bind /\ ~conn.authenticated

\* a session that is not lazy is bound by the success of its bind request
C32_WitnessNotLazy ==
    /\ call.op = "bind" /\ ~conn.lazy /\ ReturnedTrue
    /\ conn.bound /\ conn.authenticated

====
